---- MODULE Spec2Model ----
(***************************************************************************)
(* nwtrack: the transactional data-access layer (connection manager, unit  *)
(* of work, repositories) and the services built on it, as a state         *)
(* machine.  The relational store is modelled as two copies of the tables: *)
(* db (what is committed) and tx (what the connection currently sees).     *)
(***************************************************************************)
EXTENDS Integers, Sequences, FiniteSets, TLC

VARIABLES db, tx, trace, result, nops, container

vars == <<db, tx, trace, result, nops, container>>

(***************************************************************************)
(* Bounds of the model.                                                    *)
(***************************************************************************)
MaxAccounts == 2
MaxAmount == 2
MaxBatch == 3
MaxOps == 4
MaxCalls == 2
MaxSteps == 3

\* the specifications that use no container
NoContainer == <<>>

(***************************************************************************)
(* models.py: Month, Side, Status                                          *)
(***************************************************************************)
ASSET == "asset"
LIABILITY == "liability"
ACTIVE == "active"
INACTIVE == "inactive"

\* Month.__init__: the conditions under which construction does not raise.
MonthValid(y, m) == ~(m < 1 \/ m > 12) /\ ~(y < 0)

Month(y, m) == [year |-> y, month |-> m]

\* an increment that never carries into the year
increment_no_carry(self) == Month(self.year, self.month + 1)

\* Month.increment
increment(self) ==
    IF self.month = 12 THEN Month(self.year + 1, 1)
    ELSE Month(self.year, self.month + 1)

DigitChar == <<"0", "1", "2", "3", "4", "5", "6", "7", "8", "9">>

RECURSIVE Decimal(_)
\* the decimal digits of a natural number, as characters
Decimal(n) ==
    IF n < 10 THEN <<DigitChar[n + 1]>>
    ELSE Append(Decimal(n \div 10), DigitChar[(n % 10) + 1])

RECURSIVE ZeroPad(_, _)
\* format spec 0<w>d: left-pad with zeros up to width w
ZeroPad(s, w) == IF Len(s) >= w THEN s ELSE ZeroPad(<<"0">> \o s, w)

\* Month.__str__: f"{year:04d}-{month:02d}"
MonthStr(self) ==
    ZeroPad(Decimal(self.year), 4) \o <<"-">> \o ZeroPad(Decimal(self.month), 2)

DigitVal(c) == CHOOSE d \in 0..9 : DigitChar[d + 1] = c

RECURSIVE ToInt(_)
\* int(<digits>)
ToInt(s) ==
    IF Len(s) = 0 THEN 0
    ELSE 10 * ToInt(SubSeq(s, 1, Len(s) - 1)) + DigitVal(s[Len(s)])

\* Month.parse on a string with exactly one "-" between two digit runs
parse(s) ==
    LET i == CHOOSE k \in 1..Len(s) : s[k] = "-"
    IN  Month(ToInt(SubSeq(s, 1, i - 1)), ToInt(SubSeq(s, i + 1, Len(s))))

(***************************************************************************)
(* Small helpers on sets of rows.                                          *)
(***************************************************************************)
SetMax(S) == CHOOSE x \in S : \A y \in S : y <= x

\* rowid of the next inserted row of a table with an integer primary key
NextId(rows) == IF rows = {} THEN 1 ELSE SetMax({r.id : r \in rows}) + 1

RECURSIVE SumAmounts(_)
SumAmounts(rows) ==
    IF rows = {} THEN 0
    ELSE LET r == CHOOSE x \in rows : TRUE
         IN  r.amount + SumAmounts(rows \ {r})

RECURSIVE SortById(_)
\* the rows of a set in rowid order
SortById(rows) ==
    IF rows = {} THEN <<>>
    ELSE LET r == CHOOSE x \in rows : \A y \in rows : x.id <= y.id
         IN  <<r>> \o SortById(rows \ {r})

(***************************************************************************)
(* mappers.py                                                              *)
(***************************************************************************)
\* AccountMapper.to_record
AccountMapper_to_record(entity) ==
    [id |-> entity.id, name |-> entity.name,
     description |-> entity.description,
     category |-> entity.category_name, currency |-> entity.currency_code,
     status |-> entity.status]

\* AccountMapper.to_entity
AccountMapper_to_entity(record) ==
    [id |-> record.id, name |-> record.name,
     description |-> record.description,
     category_name |-> record.category, currency_code |-> record.currency,
     status |-> record.status]

\* BalanceMapper.to_record
BalanceMapper_to_record(entity) ==
    [id |-> entity.id, account_id |-> entity.account_id,
     month |-> MonthStr(entity.month), amount |-> entity.amount]

\* BalanceMapper.to_entity
BalanceMapper_to_entity(record) ==
    [id |-> record.id, account_id |-> record.account_id,
     month |-> parse(record.month), amount |-> record.amount]

\* CurrencyMapper.to_entity
CurrencyMapper_to_entity(record) ==
    [code |-> record.code, description |-> record.description]

\* CategoryMapper.to_entity
CategoryMapper_to_entity(record) ==
    [name |-> record.name, side |-> record.side]

\* ExchangeRateMapper.to_entity on a row of the database, whose rate is a
\* float already (rates are counted in hundredths)
ExchangeRateMapper_to_entity(record) ==
    [currency_code |-> record.currency, month |-> parse(record.month),
     rate |-> record.rate]

\* NetWorthMapper.to_entity (the class is imported by compose.py but is not
\* part of the sources; modelled after the NetWorth dataclass)
NetWorthMapper_to_entity(record) ==
    [month |-> parse(record.month), assets |-> record.total_assets,
     liabilities |-> record.total_liabilities,
     net_worth |-> record.net_worth, currency_code |-> record.currency]

(***************************************************************************)
(* The schema (sql/nwtrack_ddl.sql is not part of the sources; the         *)
(* constraints are those of the design document, section 6).               *)
(***************************************************************************)
\* accounts.name UNIQUE
AccountNameUnique(t, name) == \A a \in t.accounts : a.name # name

\* accounts.category REFERENCES categories(name)
FkCategory(t, category) == \E c \in t.categories : c.name = category

\* accounts.currency REFERENCES currencies(code)
FkCurrency(t, currency) == \E c \in t.currencies : c.code = currency

\* balances UNIQUE(account_id, month)
BalanceUnique(t, account_id, month) ==
    \A b \in t.balances : ~(b.account_id = account_id /\ b.month = month)

\* balances.account_id REFERENCES accounts(id)
FkAccount(t, account_id) == \E a \in t.accounts : a.id = account_id

\* The reporting currency carried by the rows of the net-worth view.
BaseCurrency == "USD"

\* side of the category of the account that owns a balance row
SideOf(t, b) ==
    LET a == CHOOSE x \in t.accounts : x.id = b.account_id
        c == CHOOSE x \in t.categories : x.name = a.category
    IN  c.side

\* balances JOIN accounts JOIN categories
Joined(t) ==
    {b \in t.balances :
        \E a \in t.accounts :
            a.id = b.account_id /\ \E c \in t.categories : c.name = a.category}

\* view networth_history: one row per month, sums grouped by category side
networth_history(t) ==
    {LET rows == {b \in Joined(t) : b.month = m}
         assets == SumAmounts({b \in rows : SideOf(t, b) = ASSET})
         liabs == SumAmounts({b \in rows : SideOf(t, b) = LIABILITY})
     IN  [month |-> m, total_assets |-> assets, total_liabilities |-> liabs,
          net_worth |-> assets - liabs, currency |-> BaseCurrency]
     : m \in {b.month : b \in Joined(t)}}

(***************************************************************************)
(* The SQL statements of repos.py, as functions of the tables the          *)
(* connection sees.  A statement yields [err, t, rowcount]; a statement    *)
(* that fails leaves t as far as it got (the caller decides what is kept). *)
(***************************************************************************)
NONE == "none"
IntegrityError == "IntegrityError"
AssertionError == "AssertionError"
IndexError == "IndexError"
NoBalancesError == "ValueError: No balances found for month."

AccountNameNotFound == "ValueError: Account name not found."

CurrencyNotInDatabase == "ValueError: Currency not found in database."
InvalidMonth == "ValueError: Invalid month"
InvalidYear == "ValueError: Invalid year"
InvalidMonthFormat == "ValueError: Invalid month format"
InvalidLiteral == "ValueError: invalid literal for int() with base 10"
UnpackError == "ValueError: values to unpack"
InvalidFloat == "ValueError: could not convert string to float"
NotAValidStatus == "ValueError: not a valid Status"
NotAValidSide == "ValueError: not a valid Side"
AttributeError == "AttributeError"
AccountExists == "ValueError: Account already exists."
StatusInvalid == "ValueError: Status must be 'active' or 'inactive'."
CurrencyNotFound == "ValueError: Currency not found."
CategoryNotFound == "ValueError: Category not found."
DescriptionEmpty == "ValueError: Description cannot be empty."
RetrieveFailed == "ValueError: Failed to retrieve newly created account."
AccountNotFound == "ValueError: Account not found."
StmtOk(t, n) == [err |-> NONE, t |-> t, rowcount |-> n]
StmtFail(t, e) == [err |-> e, t |-> t, rowcount |-> 0]

\* INSERT INTO accounts (name, description, category, currency, status)
SqlInsertAccount(t, p) ==
    IF ~AccountNameUnique(t, p.name) \/ ~FkCategory(t, p.category)
       \/ ~FkCurrency(t, p.currency)
    THEN StmtFail(t, IntegrityError)
    ELSE StmtOk([t EXCEPT !.accounts = @ \cup
                    {[id |-> NextId(t.accounts), name |-> p.name,
                      description |-> p.description, category |-> p.category,
                      currency |-> p.currency, status |-> p.status]}], 1)

RECURSIVE SqlInsertAccounts(_, _)
\* executemany of the account insert
SqlInsertAccounts(t, ps) ==
    IF Len(ps) = 0 THEN StmtOk(t, 0)
    ELSE LET r == SqlInsertAccount(t, Head(ps))
         IN  IF r.err # NONE THEN r
             ELSE LET rest == SqlInsertAccounts(r.t, Tail(ps))
                  IN  [rest EXCEPT !.rowcount = IF rest.err = NONE
                                                THEN @ + 1 ELSE 0]

\* the insert written as INSERT OR REPLACE: a row of a stored pair
\* replaces the stored row
SqlInsertBalance_or_replace(t, p) ==
    IF ~FkAccount(t, p.account_id)
    THEN StmtFail(t, IntegrityError)
    ELSE StmtOk([t EXCEPT !.balances =
                    {b \in @ : ~(b.account_id = p.account_id
                                 /\ b.month = p.month)}
                    \cup {[id |-> NextId(t.balances),
                           account_id |-> p.account_id,
                           month |-> p.month, amount |-> p.amount]}], 1)

\* INSERT INTO balances (account_id, month, amount), one parameter row
SqlInsertBalance(t, p) ==
    IF ~BalanceUnique(t, p.account_id, p.month) \/ ~FkAccount(t, p.account_id)
    THEN StmtFail(t, IntegrityError)
    ELSE StmtOk([t EXCEPT !.balances = @ \cup
                    {[id |-> NextId(t.balances), account_id |-> p.account_id,
                      month |-> p.month, amount |-> p.amount]}], 1)

RECURSIVE SqlInsertBalances(_, _)
\* executemany of the balance insert: the rows in order, stopping at the
\* first row that fails
SqlInsertBalances(t, ps) ==
    IF Len(ps) = 0 THEN StmtOk(t, 0)
    ELSE LET r == SqlInsertBalance(t, Head(ps))
         IN  IF r.err # NONE THEN r
             ELSE LET rest == SqlInsertBalances(r.t, Tail(ps))
                  IN  [rest EXCEPT !.rowcount = IF rest.err = NONE
                                                THEN @ + 1 ELSE 0]

\* the update with a WHERE clause that leaves out the month
SqlUpdateBalance_any_month(t, amount, account_id, month) ==
    LET hit == {b \in t.balances : b.account_id = account_id}
    IN  StmtOk([t EXCEPT !.balances =
                   {IF b \in hit THEN [b EXCEPT !.amount = amount] ELSE b
                    : b \in @}], Cardinality(hit))

\* UPDATE balances SET amount WHERE account_id AND month
SqlUpdateBalance(t, amount, account_id, month) ==
    LET hit == {b \in t.balances :
                   b.account_id = account_id /\ b.month = month}
    IN  StmtOk([t EXCEPT !.balances =
                   {IF b \in hit THEN [b EXCEPT !.amount = amount] ELSE b
                    : b \in @}], Cardinality(hit))

\* UPDATE accounts SET <field> = :value WHERE id = :account_id; the
\* constraints are checked for the rows the statement changes
\* the UPDATE of accounts without its WHERE clause
SqlUpdateAccount_every_row(t, field, value, account_id) ==
    StmtOk([t EXCEPT !.accounts = {[a EXCEPT ![field] = value] : a \in @}],
           Cardinality(t.accounts))

SqlUpdateAccount(t, field, value, account_id) ==
    LET hit == {a \in t.accounts : a.id = account_id}
        bad == CASE field = "name" ->
                       \E a \in t.accounts : a.id # account_id /\ a.name = value
                 [] field = "category" -> ~FkCategory(t, value)
                 [] field = "currency" -> ~FkCurrency(t, value)
                 [] OTHER -> FALSE
    IN  IF hit # {} /\ bad THEN StmtFail(t, IntegrityError)
        ELSE StmtOk([t EXCEPT !.accounts =
                        {IF a \in hit THEN [a EXCEPT ![field] = value] ELSE a
                         : a \in @}], Cardinality(hit))

\* DELETE FROM accounts WHERE id = :account_id; a row that balances still
\* refer to cannot be deleted (foreign key of balances.account_id)
SqlDeleteAccount(t, account_id) ==
    LET hit == {a \in t.accounts : a.id = account_id}
    IN  IF hit # {} /\ \E b \in t.balances : b.account_id = account_id
        THEN StmtFail(t, IntegrityError)
        ELSE StmtOk([t EXCEPT !.accounts = @ \ hit], Cardinality(hit))

RECURSIVE InsertOrIgnore(_, _, _)
\* INSERT OR IGNORE of the selected rows, in the order of the scan
InsertOrIgnore(t, src, next_month) ==
    IF Len(src) = 0 THEN StmtOk(t, 0)
    ELSE LET s == Head(src)
         IN  IF ~BalanceUnique(t, s.account_id, next_month)
             THEN InsertOrIgnore(t, Tail(src), next_month)
             ELSE IF ~FkAccount(t, s.account_id)
             THEN StmtFail(t, IntegrityError)
             ELSE LET t1 == [t EXCEPT !.balances = @ \cup
                                {[id |-> NextId(t.balances),
                                  account_id |-> s.account_id,
                                  month |-> next_month,
                                  amount |-> s.amount]}]
                      rest == InsertOrIgnore(t1, Tail(src), next_month)
                  IN  [rest EXCEPT !.rowcount = IF rest.err = NONE
                                                THEN @ + 1 ELSE 0]

\* the roll-forward written as a plain INSERT ... SELECT: a stored
\* destination pair fails the statement
SqlRollForward_plain_insert(t, month, next_month) ==
    LET src == {b \in t.balances : b.month = month}
    IN  IF \E s \in src : ~BalanceUnique(t, s.account_id, next_month)
        THEN StmtFail(t, IntegrityError)
        ELSE InsertOrIgnore(t, SortById(src), next_month)

\* the roll-forward written as INSERT OR REPLACE ... SELECT: a stored
\* destination row is replaced by the copy
SqlRollForward_or_replace(t, month, next_month) ==
    LET src == {b \in t.balances : b.month = month}
        kept == {b \in t.balances :
                    ~(b.month = next_month
                      /\ \E s \in src : s.account_id = b.account_id)}
    IN  InsertOrIgnore([t EXCEPT !.balances = kept], SortById(src),
                       next_month)

\* INSERT OR IGNORE INTO balances SELECT account_id, :next_month, amount
\* FROM balances WHERE month = :month
SqlRollForward(t, month, next_month) ==
    LET r == InsertOrIgnore(t, SortById({b \in t.balances : b.month = month}),
                            next_month)
    IN  IF r.err # NONE THEN StmtFail(t, r.err) ELSE r

\* DELETE FROM balances
SqlDeleteAllBalances(t) ==
    StmtOk([t EXCEPT !.balances = {}], Cardinality(t.balances))

\* DELETE FROM balances WHERE account_id = :account_id
SqlDeleteBalancesByAccount(t, account_id) ==
    LET hit == {b \in t.balances : b.account_id = account_id}
    IN  StmtOk([t EXCEPT !.balances = @ \ hit], Cardinality(hit))

(***************************************************************************)
(* dbmanager.py: SQLiteConnectionManager.  S is the state of the store as  *)
(* one call finds it (db, tx, trace); every operator yields the state it   *)
(* leaves together with the error raised, the rowcount and the value.      *)
(***************************************************************************)
Out(d, x, tr, e, n, v) ==
    [db |-> d, tx |-> x, trace |-> tr, err |-> e, rowcount |-> n, value |-> v]

\* conn.commit()
ConnCommit(S) == [S EXCEPT !.db = S.tx, !.trace = Append(@, "db.commit")]

\* conn.rollback()
ConnRollback(S) == [S EXCEPT !.tx = S.db, !.trace = Append(@, "db.rollback")]

\* execute: the statement, then conn.commit(); a statement that raises is
\* undone by the engine and nothing is committed
execute(S, r) ==
    IF r.err # NONE
    THEN Out(S.db, S.tx, S.trace, r.err, 0, <<>>)
    ELSE LET c == ConnCommit([S EXCEPT !.tx = r.t])
         IN  Out(c.db, c.tx, c.trace, NONE, r.rowcount, <<>>)

\* execute_many: "with conn" commits when the block ends normally and rolls
\* back when executemany raises
execute_many(S, r) ==
    IF r.err # NONE
    THEN LET c == ConnRollback([S EXCEPT !.tx = r.t])
         IN  Out(c.db, c.tx, c.trace, r.err, 0, <<>>)
    ELSE LET c == ConnCommit([S EXCEPT !.tx = r.t])
         IN  Out(c.db, c.tx, c.trace, NONE, r.rowcount, <<>>)

\* fetch_all: the rows of the query, inside "with conn"
fetch_all(S, rows) ==
    LET c == ConnCommit(S)
    IN  Out(c.db, c.tx, c.trace, NONE, 0, rows)

\* fetch_one: the first row of the query or None (here: <<>>)
fetch_one(S, rows) ==
    LET c == ConnCommit(S)
    IN  Out(c.db, c.tx, c.trace, NONE, 0,
            IF rows = {} THEN <<>> ELSE <<CHOOSE r \in rows : TRUE>>)

\* commit
commit(S) == ConnCommit(S)

\* rollback
rollback(S) == ConnRollback(S)

(***************************************************************************)
(* unitofwork.py: SQLiteUnitOfWork                                         *)
(***************************************************************************)
Call(S, name) == [S EXCEPT !.trace = Append(@, name)]

\* the exception that leaves a block, noted where it is raised
Raise(o) == IF o.err # NONE THEN Call(o, o.err) ELSE o

\* __enter__: builds the repositories on the shared connection
UnitOfWork_enter(S) == Call(S, "uow.enter")

\* SQLiteUnitOfWork.commit
UnitOfWork_commit(S) == commit(Call(S, "uow.commit"))

\* SQLiteUnitOfWork.rollback
UnitOfWork_rollback(S) == rollback(Call(S, "uow.rollback"))

\* __exit__ that commits whatever left the block
UnitOfWork_exit_always_commits(S, e) ==
    LET x == Call(UnitOfWork_commit(S), "uow.exit")
    IN  Out(x.db, x.tx, x.trace, e, 0, <<>>)

\* __exit__ with the exception e that left the block (NONE: none); it
\* returns None, so e goes on to the caller
UnitOfWork_exit(S, e) ==
    LET c == IF e # NONE THEN UnitOfWork_rollback(S) ELSE UnitOfWork_commit(S)
        x == Call(c, "uow.exit")
    IN  Out(x.db, x.tx, x.trace, e, 0, <<>>)

(***************************************************************************)
(* repos.py                                                                *)
(***************************************************************************)
\* SQLiteAccountsRepository.insert
accounts_insert(S, data) ==
    execute(Call(S, "accounts.insert"),
            SqlInsertAccount(S.tx, AccountMapper_to_record(data)))

\* SQLiteAccountsRepository.insert_many
accounts_insert_many(S, data) ==
    execute_many(Call(S, "accounts.insert_many"),
                 SqlInsertAccounts(S.tx,
                    [i \in DOMAIN data |-> AccountMapper_to_record(data[i])]))

\* SQLiteBalancesRepository.insert_many
balances_insert_many(S, data) ==
    execute_many(Call(S, "balances.insert_many"),
                 SqlInsertBalances(S.tx,
                    [i \in DOMAIN data |-> BalanceMapper_to_record(data[i])]))

\* SQLiteBalancesRepository.update
balances_update(S, account_id, month, new_amount) ==
    LET o == execute(Call(S, "balances.update"),
                     SqlUpdateBalance(S.tx, new_amount, account_id,
                                      MonthStr(month)))
    IN  IF o.err = NONE /\ o.rowcount # 1
        THEN [o EXCEPT !.err = AssertionError] ELSE o

\* SQLiteBalancesRepository.check_month
balances_check_month(S, month) ==
    LET o == fetch_one(Call(S, "balances.check_month"),
                       {b \in S.tx.balances : b.month = MonthStr(month)})
    IN  [o EXCEPT !.value = (Len(o.value) # 0)]

\* roll_forward that passes the source month as the destination
balances_roll_forward_same_month(S, month) ==
    execute(Call(S, "balances.roll_forward"),
            SqlRollForward(S.tx, MonthStr(month), MonthStr(month)))

\* SQLiteBalancesRepository.roll_forward
balances_roll_forward(S, month) ==
    LET next_month == increment(month)
    IN  execute(Call(S, "balances.roll_forward"),
                SqlRollForward(S.tx, MonthStr(month), MonthStr(next_month)))

\* SQLiteBalancesRepository.delete_all
balances_delete_all(S) ==
    execute(Call(S, "balances.delete_all"), SqlDeleteAllBalances(S.tx))

\* SQLiteBalancesRepository.delete_by_account_id
balances_delete_by_account_id(S, account_id) ==
    execute(Call(S, "balances.delete_by_account_id"),
            SqlDeleteBalancesByAccount(S.tx, account_id))

\* get whose query leaves out the month
net_worth_get_any_month(S, month, currency_code) ==
    LET o == fetch_all(Call(Call(S, "net_worth.get"), currency_code),
                       {r \in networth_history(S.tx) :
                           r.currency = currency_code})
    IN  IF Cardinality(o.value) > 1 THEN [o EXCEPT !.err = AssertionError,
                                                   !.value = <<>>]
        ELSE IF o.value = {} THEN [o EXCEPT !.err = IndexError,
                                            !.value = <<>>]
        ELSE [o EXCEPT !.value =
                 <<NetWorthMapper_to_entity(CHOOSE r \in o.value : TRUE)>>]

\* SQLiteNetWorthRepository.get
net_worth_get(S, month, currency_code) ==
    LET o == fetch_all(Call(Call(S, "net_worth.get"), currency_code),
                       {r \in networth_history(S.tx) :
                           r.month = MonthStr(month)
                           /\ r.currency = currency_code})
    IN  IF Cardinality(o.value) > 1 THEN [o EXCEPT !.err = AssertionError,
                                                   !.value = <<>>]
        ELSE IF o.value = {} THEN [o EXCEPT !.err = IndexError,
                                            !.value = <<>>]
        ELSE [o EXCEPT !.value =
                 <<NetWorthMapper_to_entity(CHOOSE r \in o.value : TRUE)>>]

\* update_name ... update_description without the assert on the rowcount
accounts_update_unasserted(S, field, account_id, value) ==
    execute(Call(S, "accounts.update_" \o field),
            SqlUpdateAccount(S.tx, field, value, account_id))

\* the body the five update_<field> methods of SQLiteAccountsRepository
\* share: the UPDATE, then assert rowcount == 1
accounts_update(S, field, account_id, value) ==
    LET o == execute(Call(S, "accounts.update_" \o field),
                     SqlUpdateAccount(S.tx, field, value, account_id))
    IN  IF o.err = NONE /\ o.rowcount # 1
        THEN [o EXCEPT !.err = AssertionError] ELSE o

\* SQLiteAccountsRepository.update_name
accounts_update_name(S, account_id, new_name) ==
    accounts_update(S, "name", account_id, new_name)

\* SQLiteAccountsRepository.update_status
accounts_update_status(S, account_id, new_status) ==
    accounts_update(S, "status", account_id, new_status)

\* SQLiteAccountsRepository.update_currency
accounts_update_currency(S, account_id, new_currency_code) ==
    accounts_update(S, "currency", account_id, new_currency_code)

\* SQLiteAccountsRepository.update_category
accounts_update_category(S, account_id, new_category_name) ==
    accounts_update(S, "category", account_id, new_category_name)

\* SQLiteAccountsRepository.update_description
accounts_update_description(S, account_id, new_description) ==
    accounts_update(S, "description", account_id, new_description)

\* SQLiteCurrenciesRepository.get_codes
currencies_get_codes(S) ==
    LET o == fetch_all(Call(S, "currencies.get_codes"), S.tx.currencies)
    IN  [o EXCEPT !.value = {r.code : r \in o.value}]

\* SQLiteExchangeRatesRepository.get
exchange_rates_get(S, month, currency_code) ==
    LET o == fetch_one(Call(S, "exchange_rates.get"),
                       {r \in S.tx.exchange_rates :
                           r.currency = currency_code
                           /\ r.month = MonthStr(month)})
    IN  IF Len(o.value) = 0 THEN o
        ELSE [o EXCEPT !.value = <<ExchangeRateMapper_to_entity(o.value[1])>>]

\* SQLiteAccountsRepository.get_by_id
accounts_get_by_id(S, account_id) ==
    LET o == fetch_one(Call(S, "accounts.get_by_id"),
                       {a \in S.tx.accounts : a.id = account_id})
    IN  IF Len(o.value) = 0 THEN o
        ELSE [o EXCEPT !.value = <<AccountMapper_to_entity(o.value[1])>>]

\* SQLiteAccountsRepository.get_by_name
accounts_get_by_name(S, account_name) ==
    LET o == fetch_one(Call(S, "accounts.get_by_name"),
                       {a \in S.tx.accounts : a.name = account_name})
    IN  IF Len(o.value) = 0 THEN o
        ELSE [o EXCEPT !.value = <<AccountMapper_to_entity(o.value[1])>>]

\* SQLiteAccountsRepository.delete_by_id
accounts_delete_by_id(S, account_id) ==
    execute(Call(S, "accounts.delete_by_id"),
            SqlDeleteAccount(S.tx, account_id))

\* SQLiteCurrenciesRepository.get
currencies_get(S, code) ==
    LET o == fetch_one(Call(S, "currencies.get"),
                       {c \in S.tx.currencies : c.code = code})
    IN  IF Len(o.value) = 0 THEN o
        ELSE [o EXCEPT !.value = <<CurrencyMapper_to_entity(o.value[1])>>]

\* SQLiteCategoriesRepository.get
categories_get(S, name) ==
    LET o == fetch_one(Call(S, "categories.get"),
                       {c \in S.tx.categories : c.name = name})
    IN  IF Len(o.value) = 0 THEN o
        ELSE [o EXCEPT !.value = <<CategoryMapper_to_entity(o.value[1])>>]

\* SQLiteAccountsRepository.get_dict_name: the accounts, indexed by name
\* (here: the set of the entities; names are unique)
accounts_get_dict_name(S) ==
    LET o == fetch_all(Call(S, "accounts.get_dict_name"), S.tx.accounts)
    IN  [o EXCEPT !.value = {AccountMapper_to_entity(r) : r \in o.value}]

\* SQLiteBalancesRepository.get: the balance of the account of a name
balances_get(S, month, account_name) ==
    LET o == fetch_all(Call(S, "balances.get"),
                 {[id |-> b.id, account_id |-> b.account_id,
                   month |-> b.month, name |-> account_name,
                   amount |-> b.amount] :
                  b \in {x \in S.tx.balances :
                           /\ x.month = MonthStr(month)
                           /\ \E a \in S.tx.accounts :
                                 a.id = x.account_id
                                 /\ a.name = account_name}})
    IN  IF Cardinality(o.value) > 1 THEN [o EXCEPT !.err = AssertionError,
                                                   !.value = <<>>]
        ELSE IF o.value = {} THEN [o EXCEPT !.err = IndexError,
                                            !.value = <<>>]
        ELSE [o EXCEPT !.value =
                 <<BalanceMapper_to_entity(CHOOSE r \in o.value : TRUE)>>]

\* get_month that leaves the status of the account out of the query
balances_get_month_any_status(S, month, active_only) ==
    LET o == fetch_all(Call(S, "balances.get_month"),
                 {[id |-> b.id, account_id |-> b.account_id,
                   month |-> b.month, name |-> a.name, amount |-> b.amount] :
                  <<a, b>> \in {x \in S.tx.accounts \X S.tx.balances :
                                  /\ x[1].id = x[2].account_id
                                  /\ x[2].month = MonthStr(month)}})
    IN  [o EXCEPT !.value = {BalanceMapper_to_entity(r) : r \in o.value}]

\* SQLiteBalancesRepository.get_month: the balances of the month, of the
\* active accounts only when active_only (the list, here as a set)
balances_get_month(S, month, active_only) ==
    LET o == fetch_all(Call(S, "balances.get_month"),
                 {[id |-> b.id, account_id |-> b.account_id,
                   month |-> b.month, name |-> a.name, amount |-> b.amount] :
                  <<a, b>> \in {x \in S.tx.accounts \X S.tx.balances :
                                  /\ x[1].id = x[2].account_id
                                  /\ x[2].month = MonthStr(month)
                                  /\ active_only => x[1].status = ACTIVE}})
    IN  [o EXCEPT !.value = {BalanceMapper_to_entity(r) : r \in o.value}]

(***************************************************************************)
(* services.py                                                             *)
(***************************************************************************)
\* InitDataService._insert_entities for the repositories "accounts" and
\* "balances", in this order, inside one scope
insert_entities(S, entities) ==
    LET a == accounts_insert_many(UnitOfWork_enter(S), entities.accounts)
        b == balances_insert_many(a, entities.balances)
        o == IF a.err # NONE THEN a ELSE b
    IN  UnitOfWork_exit(Raise(o), o.err)

\* roll_balances_forward without the check of the source month
roll_balances_forward_unchecked(S, month) ==
    LET f == balances_check_month(UnitOfWork_enter(S), month)
        x1 == UnitOfWork_exit(f, NONE)
        r == balances_roll_forward(UnitOfWork_enter(x1), month)
        x2 == UnitOfWork_exit(Raise(r), r.err)
    IN  [x2 EXCEPT !.rowcount = r.rowcount]

\* roll_balances_forward with the check and the copy in one scope
roll_balances_forward_one_scope(S, month) ==
    LET f == balances_check_month(UnitOfWork_enter(S), month)
        c == IF ~f.value THEN [f EXCEPT !.err = NoBalancesError] ELSE f
        r == IF c.err # NONE THEN c ELSE balances_roll_forward(c, month)
        x == UnitOfWork_exit(Raise(r), r.err)
    IN  [x EXCEPT !.rowcount = r.rowcount]

\* UpdateService.roll_balances_forward: the check in one scope, the copy
\* in a second one
roll_balances_forward(S, month) ==
    LET f == balances_check_month(UnitOfWork_enter(S), month)
        c == IF ~f.value THEN [f EXCEPT !.err = NoBalancesError] ELSE f
        x1 == UnitOfWork_exit(Raise(c), c.err)
        r == balances_roll_forward(UnitOfWork_enter(x1), month)
        x2 == UnitOfWork_exit(Raise(r), r.err)
    IN  IF c.err # NONE THEN x1 ELSE [x2 EXCEPT !.rowcount = r.rowcount]

\* ReportService.get_net_worth: net_worth.get is called with the month only
get_net_worth(S, month, currency_code) ==
    LET r == net_worth_get(UnitOfWork_enter(S), month, "USD")
        x == UnitOfWork_exit(Raise(r), r.err)
    IN  [x EXCEPT !.value = r.value]

\* UpdateService.update_balance
update_balance(S, account_id, month, new_amount) ==
    LET u == balances_update(UnitOfWork_enter(S), account_id, month,
                             new_amount)
        x == UnitOfWork_exit(Raise(u), u.err)
    IN  [x EXCEPT !.rowcount = u.rowcount]

\* UpdateService.update_balance_account_name: the lookup of the name in a
\* scope of its own, the error for an unknown name raised after that scope
update_balance_account_name(S, account_name, month, new_amount) ==
    LET g == accounts_get_dict_name(UnitOfWork_enter(S))
        x == UnitOfWork_exit(g, NONE)
        hit == {a \in g.value : a.name = account_name}
    IN  IF hit = {} THEN Raise([x EXCEPT !.err = AccountNameNotFound])
        ELSE update_balance(x, (CHOOSE a \in hit : TRUE).id, month,
                            new_amount)

\* get_exchange_rate without the check of the currency code
get_exchange_rate_unchecked(S, month, currency_code) ==
    LET g == currencies_get_codes(UnitOfWork_enter(S))
        x == UnitOfWork_exit(g, NONE)
        r == exchange_rates_get(UnitOfWork_enter(x), month, currency_code)
        y == UnitOfWork_exit(r, NONE)
    IN  [y EXCEPT !.value = r.value]

\* ReportService.get_exchange_rate: an unknown code raises after the first
\* scope; what exchange_rates.get returns, None included, is returned
get_exchange_rate(S, month, currency_code) ==
    LET g == currencies_get_codes(UnitOfWork_enter(S))
        x == UnitOfWork_exit(g, NONE)
        r == exchange_rates_get(UnitOfWork_enter(x), month, currency_code)
        y == UnitOfWork_exit(r, NONE)
    IN  IF currency_code \notin g.value
        THEN Raise([x EXCEPT !.err = CurrencyNotInDatabase])
        ELSE [y EXCEPT !.value = r.value]

\* a second scope that deletes the account alone
delete_scope_account_only(S, account_id) ==
    LET a == accounts_delete_by_id(UnitOfWork_enter(S), account_id)
        y == UnitOfWork_exit(Raise(a), a.err)
    IN  IF a.err = NONE /\ a.rowcount # 1
        THEN Raise([y EXCEPT !.err = AssertionError])
        ELSE y

\* the second scope of AccountService.delete: the balances of the account,
\* then the account; rowcount is balance_count
delete_scope(S, account_id) ==
    LET b == balances_delete_by_account_id(UnitOfWork_enter(S), account_id)
        a == IF b.err # NONE THEN b ELSE accounts_delete_by_id(b, account_id)
        y == UnitOfWork_exit(Raise(a), a.err)
    IN  IF a.err = NONE /\ a.rowcount # 1
        THEN Raise([y EXCEPT !.err = AssertionError])
        ELSE [y EXCEPT !.rowcount = b.rowcount]

\* AccountService.delete
AccountService_delete(S, name) ==
    LET g == accounts_get_by_name(UnitOfWork_enter(S), name)
        x == UnitOfWork_exit(g, NONE)
    IN  IF Len(g.value) = 0
        THEN Raise([x EXCEPT !.err = AccountNotFound])
        ELSE delete_scope(x, g.value[1].id)

\* raise e after the scope that ended in x
RaiseAfter(x, e) == Raise([x EXCEPT !.err = e])

\* AccountService.create with the name check left out
AccountService_create_unchecked(S, name, description, category_name, status_str, currency_code) ==
    LET account == [id |-> 0, name |-> name, description |-> description,
                    category_name |-> category_name,
                    currency_code |-> currency_code, status |-> status_str]
        i == accounts_insert(UnitOfWork_enter(S), account)
        x == UnitOfWork_exit(Raise(i), i.err)
        r == accounts_get_by_name(UnitOfWork_enter(x), name)
        y == UnitOfWork_exit(r, NONE)
    IN  IF i.err # NONE THEN x ELSE [y EXCEPT !.value = r.value]

\* AccountService.create: four validations, each in a scope of its own or
\* in none, then the insert and the read of the new account
AccountService_create(S, name, description, category_name, status_str, currency_code) ==
    LET g == accounts_get_by_name(UnitOfWork_enter(S), name)
        x1 == UnitOfWork_exit(g, NONE)
        cu == currencies_get(UnitOfWork_enter(x1), currency_code)
        x2 == UnitOfWork_exit(cu, NONE)
        ca == categories_get(UnitOfWork_enter(x2), category_name)
        x3 == UnitOfWork_exit(ca, NONE)
        account == [id |-> 0, name |-> name, description |-> description,
                    category_name |-> category_name,
                    currency_code |-> currency_code, status |-> status_str]
        i == accounts_insert(UnitOfWork_enter(x3), account)
        x4 == UnitOfWork_exit(Raise(i), i.err)
        r == accounts_get_by_name(UnitOfWork_enter(x4), name)
        x5 == UnitOfWork_exit(r, NONE)
    IN  IF Len(g.value) # 0 THEN RaiseAfter(x1, AccountExists)
        ELSE IF status_str \notin {ACTIVE, INACTIVE}
        THEN RaiseAfter(x1, StatusInvalid)
        ELSE IF Len(cu.value) = 0 THEN RaiseAfter(x2, CurrencyNotFound)
        ELSE IF Len(ca.value) = 0 THEN RaiseAfter(x3, CategoryNotFound)
        ELSE IF i.err # NONE THEN x4
        ELSE IF i.rowcount # 1 THEN RaiseAfter(x4, AssertionError)
        ELSE IF Len(r.value) = 0 THEN RaiseAfter(x5, RetrieveFailed)
        ELSE [x5 EXCEPT !.value = r.value]

\* the rename without the search for the new name
update_new_name_unchecked(S, account_id, new_name) ==
    LET u == accounts_update_name(UnitOfWork_enter(S), account_id,
                                  new_name[1])
    IN  IF Len(new_name) = 0 THEN S
        ELSE UnitOfWork_exit(Raise(u), u.err)

\* update: "if new_name is not None"; a parameter is <<>> (None) or <<v>>
update_new_name(S, account_id, new_name) ==
    LET e == accounts_get_by_name(UnitOfWork_enter(S), new_name[1])
        x == UnitOfWork_exit(e, NONE)
        u == accounts_update_name(UnitOfWork_enter(x), account_id,
                                  new_name[1])
    IN  IF Len(new_name) = 0 THEN S
        ELSE IF Len(e.value) # 0 THEN RaiseAfter(x, AccountExists)
        ELSE UnitOfWork_exit(Raise(u), u.err)

\* update: "if new_description is not None"
update_new_description(S, account_id, new_description) ==
    LET u == accounts_update_description(UnitOfWork_enter(S), account_id,
                                         new_description[1])
    IN  IF Len(new_description) = 0 THEN S
        ELSE IF new_description[1] = "" THEN RaiseAfter(S, DescriptionEmpty)
        ELSE UnitOfWork_exit(Raise(u), u.err)

\* update: "if new_currency_code is not None"
update_new_currency_code(S, account_id, new_currency_code) ==
    LET e == currencies_get(UnitOfWork_enter(S), new_currency_code[1])
        x == UnitOfWork_exit(e, NONE)
        u == accounts_update_currency(UnitOfWork_enter(x), account_id,
                                      new_currency_code[1])
    IN  IF Len(new_currency_code) = 0 THEN S
        ELSE IF Len(e.value) = 0 THEN RaiseAfter(x, CurrencyNotFound)
        ELSE UnitOfWork_exit(Raise(u), u.err)

\* update: "if new_category_name is not None"
update_new_category_name(S, account_id, new_category_name) ==
    LET e == categories_get(UnitOfWork_enter(S), new_category_name[1])
        x == UnitOfWork_exit(e, NONE)
        u == accounts_update_category(UnitOfWork_enter(x), account_id,
                                      new_category_name[1])
    IN  IF Len(new_category_name) = 0 THEN S
        ELSE IF Len(e.value) = 0 THEN RaiseAfter(x, CategoryNotFound)
        ELSE UnitOfWork_exit(Raise(u), u.err)

\* update: "if new_status_str is not None"
update_new_status_str(S, account_id, new_status_str) ==
    LET u == accounts_update_status(UnitOfWork_enter(S), account_id,
                                    new_status_str[1])
    IN  IF Len(new_status_str) = 0 THEN S
        ELSE IF new_status_str[1] \notin {ACTIVE, INACTIVE}
        THEN RaiseAfter(S, StatusInvalid)
        ELSE UnitOfWork_exit(Raise(u), u.err)

\* the value of F at the value of e: e is evaluated once, as the statement
\* that assigns it is executed once
Bind(e, F(_)) == CHOOSE out \in {F(v) : v \in {e}} : TRUE

\* the next block of update, skipped by the exception of an earlier one
Unless(S, next) == IF S.err # NONE THEN S ELSE next

\* AccountService.update: the new values are applied one after another, in
\* the order name, description, currency, category, status; the first
\* error ends the call; the account read by id at the end is returned
AccountService_update(S, name, new_name, new_description, new_category_name, new_status_str, new_currency_code) ==
    LET g == accounts_get_by_name(UnitOfWork_enter(S), name)
        account_id == g.value[1].id
        last(s5) ==
            LET r == accounts_get_by_id(UnitOfWork_enter(s5), account_id)
                y == UnitOfWork_exit(r, NONE)
            IN  IF s5.err # NONE THEN s5
                ELSE IF Len(r.value) = 0 THEN RaiseAfter(y, AssertionError)
                ELSE [y EXCEPT !.value = r.value]
    IN  IF Len(g.value) = 0
        THEN RaiseAfter(UnitOfWork_exit(g, NONE), AccountNotFound)
        ELSE
        Bind(UnitOfWork_exit(g, NONE), LAMBDA x :
        Bind(update_new_name(x, account_id, new_name), LAMBDA s1 :
        Bind(Unless(s1, update_new_description(s1, account_id,
                                               new_description)), LAMBDA s2 :
        Bind(Unless(s2, update_new_currency_code(s2, account_id,
                                                 new_currency_code)), LAMBDA s3 :
        Bind(Unless(s3, update_new_category_name(s3, account_id,
                                                 new_category_name)), LAMBDA s4 :
        Bind(Unless(s4, update_new_status_str(s4, account_id,
                                              new_status_str)), last))))))

\* ReportService.get_balance
get_balance(S, month, account_name) ==
    LET r == balances_get(UnitOfWork_enter(S), month, account_name)
        x == UnitOfWork_exit(Raise(r), r.err)
    IN  [x EXCEPT !.value = r.value]

\* ReportService.get_month_balances
get_month_balances(S, month, active_only) ==
    LET r == balances_get_month(UnitOfWork_enter(S), month, active_only)
        x == UnitOfWork_exit(Raise(r), r.err)
    IN  [x EXCEPT !.value = r.value]

NoNetWorthData == "No net worth data found for <month> in <currency>"

\* ReportService.print_net_worth: the record is printed (here: returned)
print_net_worth(S, month, currency_code) ==
    LET r == net_worth_get(UnitOfWork_enter(S), month, currency_code)
        x == UnitOfWork_exit(Raise(r), r.err)
    IN  IF r.err # NONE THEN x
        ELSE IF Len(r.value) = 0 THEN RaiseAfter(x, NoNetWorthData)
        ELSE [x EXCEPT !.value = r.value]

(***************************************************************************)
(* A block of repository calls made by a caller inside one scope:          *)
(*     with uow_factory() as uow: <calls>                                  *)
(* as in InitDataService._insert_records and in tests/test_repos.py.       *)
(* A call is described by a record d; d.op names the repository method.    *)
(***************************************************************************)
RunOp(S, d) ==
    CASE d.op = "accounts.insert" -> accounts_insert(S, d.data)
      [] d.op = "balances.insert_many" -> balances_insert_many(S, d.data)
      [] d.op = "balances.update" ->
            balances_update(S, d.account_id, d.month, d.amount)
      [] d.op = "balances.check_month" -> balances_check_month(S, d.month)
      [] d.op = "balances.roll_forward" -> balances_roll_forward(S, d.month)
      [] d.op = "balances.delete_all" -> balances_delete_all(S)
      [] d.op = "balances.delete_by_account_id" ->
            balances_delete_by_account_id(S, d.account_id)
      [] d.op = "accounts.update_name" ->
            accounts_update_name(S, d.account_id, d.value)
      [] d.op = "accounts.update_status" ->
            accounts_update_status(S, d.account_id, d.value)
      [] d.op = "accounts.update_currency" ->
            accounts_update_currency(S, d.account_id, d.value)
      [] d.op = "accounts.update_category" ->
            accounts_update_category(S, d.account_id, d.value)
      [] d.op = "accounts.update_description" ->
            accounts_update_description(S, d.account_id, d.value)
      [] d.op = "balances.get" -> balances_get(S, d.month, d.account_name)
      [] d.op = "balances.get_month" ->
            balances_get_month(S, d.month, d.active_only)
      [] d.op = "net_worth.get" -> net_worth_get(S, d.month, d.currency_code)

\* a block of two calls whose second call is made on a connection of its
\* own, which sees the tables as they were when the scope was entered
RunBlock_own_connections(S, ds) ==
    IF Len(ds) = 0 THEN Out(S.db, S.tx, S.trace, NONE, 0, <<>>)
    ELSE LET o == RunOp(S, Head(ds))
         IN  IF o.err # NONE \/ Len(ds) = 1 THEN o
             ELSE LET r == RunOp([S EXCEPT !.trace = o.trace], ds[2])
                  IN  Out(o.db, o.tx, r.trace, r.err, r.rowcount, r.value)

RECURSIVE RunBlock(_, _)
\* the calls in order; the first error leaves the block
RunBlock(S, ds) ==
    IF Len(ds) = 0 THEN Out(S.db, S.tx, S.trace, NONE, 0, <<>>)
    ELSE LET o == RunOp(S, Head(ds))
         IN  IF o.err # NONE \/ Len(ds) = 1 THEN o
             ELSE RunBlock(o, Tail(ds))

\* with uow_factory() as uow: ds
uow_block(S, ds) ==
    LET o == RunBlock(UnitOfWork_enter(S), ds)
        x == UnitOfWork_exit(Raise(o), o.err)
    IN  [x EXCEPT !.rowcount = o.rowcount, !.value = o.value]

(***************************************************************************)
(* Inputs                                                                  *)
(***************************************************************************)
CurrencyCodes == {"USD", "CHF"}
LoadMonth == Month(2024, 12)
InputMonths == {LoadMonth, increment(LoadMonth)}
AccountIds == 1..(MaxAccounts + 1)
\* amounts an update sets; a loaded balance has amount 1
NewAmounts == 2..MaxAmount

Acct(n, c, s) ==
    [id |-> 0, name |-> n, description |-> "d", category_name |-> c,
     currency_code |-> "USD", status |-> s]

AccountInputs ==
    {Acct("a", "checking", ACTIVE), Acct("b", "mortgage", ACTIVE),
     Acct("b", "mortgage", INACTIVE)}

Bal(a, m, n) == [id |-> 0, account_id |-> a, month |-> m, amount |-> n]
Loaded(a, m) == Bal(a, m, 1)

\* the balance lists handed to insert_many: one row of one account, or the
\* rows of the accounts 1..k of the month loaded
Batches ==
    {<<Loaded(a, m)>> : a \in AccountIds, m \in InputMonths}
    \cup {[i \in 1..k |-> Loaded(i, LoadMonth)] : k \in 2..MaxBatch}

\* the lists handed to the initial load
EntityInputs ==
    [accounts : {<<Acct("a", "checking", ACTIVE)>>,
                 <<Acct("a", "checking", ACTIVE),
                   Acct("b", "mortgage", ACTIVE)>>,
                 <<Acct("a", "checking", ACTIVE),
                   Acct("b", "mortgage", INACTIVE)>>},
     balances : {<<>>}
                \cup {[i \in 1..k |-> Loaded(i, LoadMonth)] :
                         k \in 2..MaxBatch}]

\* the repository calls a caller makes in a scope of its own
RepoCalls ==
    [op : {"balances.insert_many"}, data : Batches]
    \cup [op : {"balances.update"}, account_id : AccountIds,
          month : InputMonths, amount : NewAmounts]
    \cup [op : {"balances.check_month", "balances.roll_forward"},
          month : InputMonths]
    \cup [op : {"balances.delete_all"}]
    \cup [op : {"balances.delete_by_account_id"}, account_id : AccountIds]

\* an account and its first balance, written in one scope
PairBlocks ==
    {<<[op |-> "accounts.insert", data |-> a],
       [op |-> "balances.insert_many",
        data |-> <<Loaded(i, LoadMonth)>>]>> :
        a \in AccountInputs, i \in AccountIds}

Blocks == {<<d>> : d \in RepoCalls} \cup PairBlocks

\* the store after init_database and the load of the reference data
InitTables ==
    [currencies |-> {[code |-> "USD", description |-> "United States Dollar"],
                     [code |-> "CHF", description |-> "Swiss Franc"]},
     categories |-> {[name |-> "checking", side |-> ASSET],
                     [name |-> "mortgage", side |-> LIABILITY]},
     accounts |-> {},
     balances |-> {},
     exchange_rates |-> {[currency |-> "CHF", month |-> MonthStr(LoadMonth),
                          rate |-> 110]}]

(***************************************************************************)
(* The state machine                                                       *)
(***************************************************************************)
Res(op, arg, o) ==
    [op |-> op, arg |-> arg, err |-> o.err, rowcount |-> o.rowcount,
     value |-> o.value]

Init ==
    /\ db = InitTables
    /\ tx = InitTables
    /\ trace = <<>>
    /\ result = [op |-> "init", arg |-> <<>>, err |-> NONE, rowcount |-> 0,
                 value |-> <<>>]
    /\ nops = 0
    /\ container = NoContainer

\* the store as a call finds it
Fresh == [db |-> db, tx |-> tx, trace |-> <<>>]

\* one call of a caller of the layer, with what it leaves behind
Step(op, arg, o) ==
    /\ nops < MaxOps
    /\ db' = o.db /\ tx' = o.tx /\ trace' = o.trace
    /\ result' = Res(op, arg, o)
    /\ nops' = nops + 1
    /\ UNCHANGED container

InsertEntities(entities) ==
    /\ Cardinality(tx.accounts) + Len(entities.accounts) <= MaxAccounts
    /\ Step("insert_entities", <<entities>>, insert_entities(Fresh, entities))

UowBlock(ds) ==
    /\ ds[1].op = "accounts.insert" => Cardinality(tx.accounts) < MaxAccounts
    /\ Step("uow", ds, uow_block(Fresh, ds))

RollBalancesForward(month) ==
    Step("roll_balances_forward", <<month>>,
         roll_balances_forward(Fresh, month))

GetNetWorth(month, currency_code) ==
    Step("get_net_worth", <<month, currency_code>>,
         get_net_worth(Fresh, month, currency_code))

Next ==
    \/ \E e \in EntityInputs : InsertEntities(e)
    \/ \E ds \in Blocks : UowBlock(ds)
    \/ \E m \in InputMonths : RollBalancesForward(m)
    \/ \E m \in InputMonths, c \in CurrencyCodes : GetNetWorth(m, c)

Spec == Init /\ [][Next]_vars

(***************************************************************************)
(* The account and balance services on a store that has been loaded:       *)
(* AccountService, UpdateService.update_balance*, ReportService.get_*.     *)
(***************************************************************************)
Blank == [db |-> InitTables, tx |-> InitTables, trace |-> <<>>]

\* the stores the initial load leaves, and those after a first roll-forward
LoadedStores ==
    LET loaded == {insert_entities(Blank, e).db : e \in EntityInputs}
    IN  {InitTables} \cup loaded
        \cup {roll_balances_forward([db |-> d, tx |-> d, trace |-> <<>>],
                                    LoadMonth).db : d \in loaded}

AccountNames == {"a", "b", "c"}

\* the repository updates a caller makes in a scope of its own
UpdateCalls ==
    [op : {"balances.update"}, account_id : AccountIds,
     month : InputMonths, amount : NewAmounts]
    \cup [op : {"accounts.update_name"}, account_id : AccountIds,
          value : {"b", "c"}]
    \cup [op : {"accounts.update_status"}, account_id : AccountIds,
          value : {INACTIVE}]
    \cup [op : {"accounts.update_currency"}, account_id : AccountIds,
          value : {"CHF"}]
    \cup [op : {"accounts.update_category"}, account_id : AccountIds,
          value : {"mortgage"}]
    \cup [op : {"accounts.update_description"}, account_id : AccountIds,
          value : {"e"}]

\* the amounts handed to update_balance: any integer, as int() of the text
\* entered returns it (use_cases.py, update_account_balance)
AmountsEntered == NewAmounts \cup {-1}

\* the codes asked for: two stored currencies and one that is not stored
RateCurrencies == CurrencyCodes \cup {"EUR"}

\* the requests made of AccountService.create: a name that may be stored
\* or new, with a stored or an unknown category, status and currency
CreateRequests ==
    [name : {"a", "c"}, description : {"d"},
     category_name : {"checking", "bogus"}, status_str : {ACTIVE, "bogus"},
     currency_code : {"USD", "EUR"}]

NoNewValues ==
    [new_name |-> <<>>, new_description |-> <<>>, new_category_name |-> <<>>,
     new_status_str |-> <<>>, new_currency_code |-> <<>>]

\* one new value, acceptable or not
OneNewValue ==
    {[NoNewValues EXCEPT !.new_name = <<v>>] : v \in {"b", "c"}}
    \cup {[NoNewValues EXCEPT !.new_description = <<v>>] : v \in {"e", ""}}
    \cup {[NoNewValues EXCEPT !.new_category_name = <<v>>] :
             v \in {"mortgage", "bogus"}}
    \cup {[NoNewValues EXCEPT !.new_status_str = <<v>>] :
             v \in {INACTIVE, "bogus"}}
    \cup {[NoNewValues EXCEPT !.new_currency_code = <<v>>] :
             v \in {"CHF", "EUR"}}

\* a new name together with one more new value
TwoNewValues == {[v EXCEPT !.new_name = <<"c">>] : v \in OneNewValue}

\* the requests made of AccountService.update
UpdateRequests == {NoNewValues} \cup OneNewValue \cup TwoNewValues

InitAccounts ==
    /\ db \in LoadedStores
    /\ tx = db
    /\ trace = <<>>
    /\ result = [op |-> "init", arg |-> <<>>, err |-> NONE, rowcount |-> 0,
                 value |-> <<>>]
    /\ nops = 0
    /\ container = NoContainer

\* one service call, with what it leaves behind
ServiceCall(op, arg, o) ==
    /\ nops < MaxCalls
    /\ db' = o.db /\ tx' = o.tx /\ trace' = o.trace
    /\ result' = Res(op, arg, o)
    /\ nops' = nops + 1
    /\ UNCHANGED container

UpdateBalance(account_id, month, new_amount) ==
    ServiceCall("update_balance", <<account_id, month, new_amount>>,
                update_balance(Fresh, account_id, month, new_amount))

UpdateBalanceAccountName(account_name, month, new_amount) ==
    ServiceCall("update_balance_account_name",
                <<account_name, month, new_amount>>,
                update_balance_account_name(Fresh, account_name, month,
                                            new_amount))

GetBalance(month, account_name) ==
    ServiceCall("get_balance", <<month, account_name>>,
                get_balance(Fresh, month, account_name))

GetExchangeRate(month, currency_code) ==
    ServiceCall("get_exchange_rate", <<month, currency_code>>,
                get_exchange_rate(Fresh, month, currency_code))

AccountDelete(name) ==
    ServiceCall("AccountService.delete", <<name>>,
                AccountService_delete(Fresh, name))

AccountCreate(q) ==
    ServiceCall("AccountService.create", <<q>>,
                AccountService_create(Fresh, q.name, q.description,
                                      q.category_name, q.status_str,
                                      q.currency_code))

AccountUpdate(name, q) ==
    ServiceCall("AccountService.update", <<name, q>>,
                AccountService_update(Fresh, name, q.new_name,
                                      q.new_description, q.new_category_name,
                                      q.new_status_str, q.new_currency_code))

\* with uow_factory() as uow: one repository update
RepoUpdate(d) == ServiceCall("uow", <<d>>, uow_block(Fresh, <<d>>))

NextAccounts ==
    \/ \E i \in AccountIds, m \in InputMonths, n \in AmountsEntered :
          UpdateBalance(i, m, n)
    \/ \E a \in AccountNames, m \in InputMonths, n \in NewAmounts :
          UpdateBalanceAccountName(a, m, n)
    \/ \E m \in InputMonths, a \in AccountNames : GetBalance(m, a)
    \/ \E d \in UpdateCalls : RepoUpdate(d)
    \/ \E m \in InputMonths, c \in RateCurrencies : GetExchangeRate(m, c)
    \/ \E n \in AccountNames : AccountDelete(n)
    \/ \E q \in CreateRequests : AccountCreate(q)
    \/ \E n \in AccountNames, q \in UpdateRequests : AccountUpdate(n, q)

SpecAccounts == InitAccounts /\ [][NextAccounts]_vars

(***************************************************************************)
(* Third specification: the Month class.  A state holds, in result, a      *)
(* (year, month) pair or a text given to the class, or what the last       *)
(* method applied returned.                                                *)
(***************************************************************************)
\* Month.__init__: the checks, then the assignments of year and month
Month_init_any_year(year, month) ==
    IF month < 1 \/ month > 12
    THEN [err |-> InvalidMonth, value |-> <<>>]
    ELSE [err |-> NONE, value |-> <<Month(year, month)>>]

Month_init(year, month) ==
    IF month < 1 \/ month > 12
    THEN [err |-> InvalidMonth, value |-> <<>>]
    ELSE IF year < 0 THEN [err |-> InvalidYear, value |-> <<>>]
    ELSE [err |-> NONE, value |-> <<Month(year, month)>>]

RECURSIVE split(_, _)
\* s.split(sep), sep one character
split(s, sep) ==
    IF \A k \in 1..Len(s) : s[k] # sep THEN <<s>>
    ELSE LET i == CHOOSE k \in 1..Len(s) :
                      s[k] = sep /\ \A j \in 1..(k - 1) : s[j] # sep
         IN  <<SubSeq(s, 1, i - 1)>> \o split(SubSeq(s, i + 1, Len(s)), sep)

\* int(p) accepts p: a text of digits and letters is a numeral when it is
\* not empty and holds digits only
IsNumeral(p) ==
    Len(p) > 0 /\ \A k \in 1..Len(p) : \E d \in 1..10 : DigitChar[d] = p[k]

\* Month.parse: the unpacking of map(int, s.split("-")) converts the parts
\* one by one and needs exactly two of them (it converts a third part
\* before it finds it one too many); then the checks of parse, then
\* Month(year, month)
Month_parse(s) ==
    LET parts == split(s, "-")
        year == ToInt(parts[1])
        month == ToInt(parts[2])
    IN  IF ~IsNumeral(parts[1]) THEN [err |-> InvalidLiteral, value |-> <<>>]
        ELSE IF Len(parts) < 2 THEN [err |-> UnpackError, value |-> <<>>]
        ELSE IF ~IsNumeral(parts[2])
        THEN [err |-> InvalidLiteral, value |-> <<>>]
        ELSE IF Len(parts) > 2
        THEN [err |-> IF IsNumeral(parts[3]) THEN UnpackError
                      ELSE InvalidLiteral, value |-> <<>>]
        ELSE IF (\A k \in 1..Len(s) : s[k] # "-") \/ Len(split(s, "-")) # 2
        THEN [err |-> InvalidMonthFormat, value |-> <<>>]
        ELSE IF month < 1 \/ month > 12
        THEN [err |-> InvalidMonth, value |-> <<>>]
        ELSE IF year < 0 THEN [err |-> InvalidYear, value |-> <<>>]
        ELSE Month_init(year, month)

\* the years and the month numbers given to Month(year, month)
Years == {-1, 0, 1, 1999, 2024, 9999, 10000}
MonthNumbers == 0..13

\* the text "YYYY-MM" of a year and a month number that are not negative
YYYY_MM(y, m) == ZeroPad(Decimal(y), 4) \o <<"-">> \o ZeroPad(Decimal(m), 2)

WellFormed == {YYYY_MM(y, m) : y \in Years \ {-1}, m \in MonthNumbers}

\* texts that are not of the form YYYY-MM
Malformed ==
    {<<>>, <<"2", "0", "2", "4">>, <<"2", "0", "2", "4", "-">>,
     <<"-", "0", "1">>, <<"2", "0", "x", "4", "-", "0", "1">>,
     <<"2", "0", "2", "4", "-", "0", "1", "-", "0", "5">>,
     <<"-", "1", "-", "0", "5">>, <<"2", "0", "2", "4", "-", "1">>}

MonthRes(op, arg, o) ==
    [op |-> op, arg |-> arg, err |-> o.err, rowcount |-> 0, value |-> o.value]

\* a call that returned v
Ok(v) == [err |-> NONE, value |-> v]

InitMonth ==
    /\ db = InitTables /\ tx = InitTables /\ trace = <<>> /\ nops = 0
    /\ container = NoContainer
    /\ \/ \E y \in Years, m \in MonthNumbers :
             result = MonthRes("numbers", <<>>, Ok(<<y, m>>))
       \/ \E s \in WellFormed \cup Malformed :
             result = MonthRes("text", <<>>, Ok(<<s>>))

MonthStep(r) ==
    /\ nops < MaxSteps
    /\ result' = r
    /\ nops' = nops + 1
    /\ UNCHANGED <<db, tx, trace, container>>

\* a Month is at hand: the last method returned one
HasMonth ==
    result.op \in {"Month", "parse", "increment"} /\ result.err = NONE

\* Month(year, month)
MonthNew ==
    /\ result.op = "numbers"
    /\ MonthStep(MonthRes("Month", result.value,
                          Month_init(result.value[1], result.value[2])))

\* Month.parse(s), s a text given or the text of a Month
MonthParse ==
    /\ result.op \in {"text", "str"}
    /\ MonthStep(MonthRes("parse", result.value,
                          Month_parse(result.value[1])))

\* m.increment(): arg is m after the call (no attribute of self is
\* assigned), value is the Month returned
MonthIncrement ==
    /\ HasMonth
    /\ MonthStep(MonthRes("increment", result.value,
                          Ok(<<increment(result.value[1])>>)))

\* str(m)
MonthToStr ==
    /\ HasMonth
    /\ MonthStep(MonthRes("str", result.value,
                          Ok(<<MonthStr(result.value[1])>>)))

NextMonth == MonthNew \/ MonthParse \/ MonthIncrement \/ MonthToStr

SpecMonth == InitMonth /\ [][NextMonth]_vars

(***************************************************************************)
(* Fourth specification: the mappers on records of any values.  A row of   *)
(* the database holds numbers in its number columns, a row of a CSV file   *)
(* (csv.DictReader) holds text in every column; to tell 1 from "1" a value *)
(* carries its Python type here.  Text is a sequence of characters, a      *)
(* float is counted in hundredths.                                         *)
(***************************************************************************)
PyInt(n) == [type |-> "int", num |-> n, text |-> <<>>]
PyFloat(h) == [type |-> "float", num |-> h, text |-> <<>>]
PyStr(s) == [type |-> "str", num |-> 0, text |-> s]

\* int(v) where the text is kept as it is
py_int_keeps_text(v) ==
    CASE v.type = "int" -> Ok(<<v>>)
      [] v.type = "float" -> Ok(<<PyInt(v.num \div 100)>>)
      [] v.type = "str" -> Ok(<<v>>)

\* int(v): an int as it is, a float cut to its whole part, a text by its
\* numeral
py_int(v) ==
    CASE v.type = "int" -> Ok(<<v>>)
      [] v.type = "float" -> Ok(<<PyInt(v.num \div 100)>>)
      [] v.type = "str" ->
            IF IsNumeral(v.text) THEN Ok(<<PyInt(ToInt(v.text))>>)
            ELSE [err |-> InvalidLiteral, value |-> <<>>]

\* float(<text>) for a text of digits with at most one "." and at most two
\* digits behind it
FloatOfText(s) ==
    LET parts == split(s, ".")
        frac == parts[2]
    IN  IF Len(parts) = 1 /\ IsNumeral(s) THEN Ok(<<PyFloat(100 * ToInt(s))>>)
        ELSE IF Len(parts) = 2 /\ IsNumeral(parts[1]) /\ IsNumeral(frac)
                /\ Len(frac) <= 2
        THEN Ok(<<PyFloat(100 * ToInt(parts[1])
                          + (IF Len(frac) = 1 THEN 10 ELSE 1) * ToInt(frac))>>)
        ELSE [err |-> InvalidFloat, value |-> <<>>]

\* float(v)
py_float(v) ==
    CASE v.type = "int" -> Ok(<<PyFloat(100 * v.num)>>)
      [] v.type = "float" -> Ok(<<v>>)
      [] v.type = "str" -> FloatOfText(v.text)

ActiveText == <<"a", "c", "t", "i", "v", "e">>
InactiveText == <<"i", "n">> \o ActiveText
AssetText == <<"a", "s", "s", "e", "t">>
LiabilityText == <<"l", "i", "a", "b", "i", "l", "i", "t", "y">>

\* Status(value): the member whose value it is; str() of a member is its
\* value
Status(v) ==
    IF v.type = "str" /\ v.text \in {ActiveText, InactiveText} THEN Ok(<<v>>)
    ELSE [err |-> NotAValidStatus, value |-> <<>>]

\* Side(value)
Side(v) ==
    IF v.type = "str" /\ v.text \in {AssetText, LiabilityText} THEN Ok(<<v>>)
    ELSE [err |-> NotAValidSide, value |-> <<>>]

\* Month.parse(record["month"])
parse_value(v) ==
    IF v.type = "str" THEN Month_parse(v.text)
    ELSE [err |-> AttributeError, value |-> <<>>]

\* keyword arguments are evaluated from left to right: the first conversion
\* that raises ends to_entity
FirstError(rs) ==
    LET bad == {k \in 1..Len(rs) : rs[k].err # NONE}
    IN  IF bad = {} THEN NONE
        ELSE rs[CHOOSE k \in bad : \A j \in bad : k <= j].err

\* record.get("id", 0)
GetId(record) == IF "id" \in DOMAIN record THEN record.id ELSE PyInt(0)

\* CurrencyMapper.to_entity
CurrencyMapper_to_entity_tagged(record) ==
    Ok(<<[code |-> record.code, description |-> record.description]>>)

\* CurrencyMapper.to_record
CurrencyMapper_to_record_tagged(entity) ==
    [code |-> entity.code, description |-> entity.description]

\* CategoryMapper.to_entity
CategoryMapper_to_entity_tagged(record) ==
    LET side == Side(record.side)
    IN  IF side.err # NONE THEN side
        ELSE Ok(<<[name |-> record.name, side |-> side.value[1]]>>)

\* CategoryMapper.to_record
CategoryMapper_to_record_tagged(entity) ==
    [name |-> entity.name, side |-> entity.side]

\* AccountMapper.to_entity
AccountMapper_to_entity_tagged(record) ==
    LET id == py_int(GetId(record))
        status == Status(record.status)
        e == FirstError(<<id, status>>)
    IN  IF e # NONE THEN [err |-> e, value |-> <<>>]
        ELSE Ok(<<[id |-> id.value[1], name |-> record.name,
                   description |-> record.description,
                   category_name |-> record.category,
                   currency_code |-> record.currency,
                   status |-> status.value[1]]>>)

\* AccountMapper.to_record
AccountMapper_to_record_tagged(entity) ==
    [id |-> entity.id, name |-> entity.name,
     description |-> entity.description, category |-> entity.category_name,
     currency |-> entity.currency_code, status |-> entity.status]

\* BalanceMapper.to_entity
BalanceMapper_to_entity_tagged(record) ==
    LET id == py_int(GetId(record))
        account_id == py_int(record.account_id)
        month == parse_value(record.month)
        amount == py_int(record.amount)
        e == FirstError(<<id, account_id, month, amount>>)
    IN  IF e # NONE THEN [err |-> e, value |-> <<>>]
        ELSE Ok(<<[id |-> id.value[1], account_id |-> account_id.value[1],
                   month |-> month.value[1], amount |-> amount.value[1]]>>)

\* BalanceMapper.to_record
BalanceMapper_to_record_tagged(entity) ==
    [id |-> entity.id, account_id |-> entity.account_id,
     month |-> PyStr(MonthStr(entity.month)), amount |-> entity.amount]

\* ExchangeRateMapper.to_entity
ExchangeRateMapper_to_entity_tagged(record) ==
    LET month == parse_value(record.month)
        rate == py_float(record.rate)
        e == FirstError(<<month, rate>>)
    IN  IF e # NONE THEN [err |-> e, value |-> <<>>]
        ELSE Ok(<<[currency_code |-> record.currency,
                   month |-> month.value[1], rate |-> rate.value[1]]>>)

\* ExchangeRateMapper.to_record
ExchangeRateMapper_to_record_tagged(entity) ==
    [currency |-> entity.currency_code,
     month |-> PyStr(MonthStr(entity.month)), rate |-> entity.rate]

\* mapper.to_entity(record)
to_entity(mapper, record) ==
    CASE mapper = "Currency" -> CurrencyMapper_to_entity_tagged(record)
      [] mapper = "Category" -> CategoryMapper_to_entity_tagged(record)
      [] mapper = "Account" -> AccountMapper_to_entity_tagged(record)
      [] mapper = "Balance" -> BalanceMapper_to_entity_tagged(record)
      [] mapper = "ExchangeRate" -> ExchangeRateMapper_to_entity_tagged(record)

\* mapper.to_record(entity)
to_record(mapper, entity) ==
    CASE mapper = "Currency" -> CurrencyMapper_to_record_tagged(entity)
      [] mapper = "Category" -> CategoryMapper_to_record_tagged(entity)
      [] mapper = "Account" -> AccountMapper_to_record_tagged(entity)
      [] mapper = "Balance" -> BalanceMapper_to_record_tagged(entity)
      [] mapper = "ExchangeRate" -> ExchangeRateMapper_to_record_tagged(entity)

\* the records given to the mappers: numbers as numbers (a row of the
\* database) and as text (a row of a CSV file), months written YYYY-MM or
\* not, enumeration values that exist or not
MonthTexts ==
    {PyStr(YYYY_MM(2023, 5)), PyStr(<<"2", "0", "2", "3", "-", "5">>),
     PyStr(YYYY_MM(2023, 13))}

CurrencyRecords ==
    [code : {PyStr(<<"U", "S", "D">>)},
     description : {PyStr(<<"d">>), PyStr(<<>>)}]

CategoryRecords ==
    [name : {PyStr(<<"c">>)},
     side : {PyStr(AssetText), PyStr(LiabilityText), PyStr(<<"x">>)}]

AccountRecords ==
    [id : {PyInt(1), PyStr(<<"1">>)}, name : {PyStr(<<"a">>)},
     description : {PyStr(<<"d">>)}, category : {PyStr(<<"c">>)},
     currency : {PyStr(<<"U", "S", "D">>)},
     status : {PyStr(ActiveText), PyStr(InactiveText), PyStr(<<"x">>)}]

BalanceRecords ==
    [id : {PyInt(1), PyStr(<<"1">>)},
     account_id : {PyInt(2), PyStr(<<"2">>)},
     month : MonthTexts,
     amount : {PyInt(100), PyStr(<<"1", "0", "0">>), PyFloat(150),
               PyStr(<<"1", "x">>)}]

\* a row of balances.get: the balance with the name of its account
NamedBalanceRecords ==
    {[id |-> r.id, account_id |-> r.account_id, month |-> r.month,
      amount |-> r.amount, name |-> PyStr(<<"a">>)] : r \in BalanceRecords}

ExchangeRateRecords ==
    [currency : {PyStr(<<"C", "H", "F">>)},
     month : MonthTexts,
     rate : {PyFloat(110), PyInt(1), PyStr(<<"1", ".", "1">>),
             PyStr(<<"x">>)}]

GivenRecord(mapper, r) == result = MonthRes("record", <<mapper>>, Ok(<<r>>))

InitRecords ==
    /\ db = InitTables /\ tx = InitTables /\ trace = <<>> /\ nops = 0
    /\ container = NoContainer
    /\ \/ \E r \in CurrencyRecords : GivenRecord("Currency", r)
       \/ \E r \in CategoryRecords : GivenRecord("Category", r)
       \/ \E r \in AccountRecords : GivenRecord("Account", r)
       \/ \E r \in BalanceRecords : GivenRecord("Balance", r)
       \/ \E r \in NamedBalanceRecords : GivenRecord("Balance", r)
       \/ \E r \in ExchangeRateRecords : GivenRecord("ExchangeRate", r)

\* entity = mapper.to_entity(record)
ToEntity ==
    /\ result.op = "record"
    /\ MonthStep(MonthRes("to_entity", <<result.arg[1], result.value[1]>>,
                          to_entity(result.arg[1], result.value[1])))

\* mapper.to_record(entity); arg keeps the record the entity was made of
ToRecord ==
    /\ result.op = "to_entity"
    /\ result.err = NONE
    /\ MonthStep(MonthRes("to_record", result.arg,
                          Ok(<<to_record(result.arg[1], result.value[1])>>)))

NextMappers ==
    \/ MonthNew
    \/ MonthParse
    \/ MonthIncrement
    \/ MonthToStr
    \/ ToEntity
    \/ ToRecord

SpecMappers == (InitMonth \/ InitRecords) /\ [][NextMappers]_vars

(***************************************************************************)
(* The reads: a write and a read made through two repositories in one      *)
(* scope, and the reports of ReportService, on a store that has been       *)
(* loaded.                                                                 *)
(***************************************************************************)
MaxReads == 1

StoredIds == 1..MaxAccounts

\* a write through one repository, then a read through another one whose
\* query looks at the table written
WriteReadBlocks ==
    {<<[op |-> "accounts.update_name", account_id |-> i, value |-> "c"],
       [op |-> "balances.get", month |-> m, account_name |-> n]>> :
        <<i, m, n>> \in StoredIds \X InputMonths \X {"a", "c"}}
    \cup {<<[op |-> "accounts.update_status", account_id |-> i,
             value |-> INACTIVE],
            [op |-> "balances.get_month", month |-> m, active_only |-> ao]>> :
             <<i, m, ao>> \in StoredIds \X InputMonths \X BOOLEAN}
    \cup {<<[op |-> "accounts.update_category", account_id |-> i,
             value |-> "mortgage"],
            [op |-> "net_worth.get", month |-> m, currency_code |-> "USD"]>> :
             <<i, m>> \in StoredIds \X InputMonths}
    \cup {<<[op |-> "balances.update", account_id |-> i, month |-> m,
             amount |-> n],
            [op |-> "net_worth.get", month |-> m, currency_code |-> "USD"]>> :
             <<i, m, n>> \in StoredIds \X InputMonths \X NewAmounts}

ReadCall(op, arg, o) ==
    /\ nops < MaxReads
    /\ db' = o.db /\ tx' = o.tx /\ trace' = o.trace
    /\ result' = Res(op, arg, o)
    /\ nops' = nops + 1
    /\ UNCHANGED container

\* with uow_factory() as uow: a write, then a read
ScopeWriteRead(ds) == ReadCall("uow", ds, uow_block(Fresh, ds))

GetMonthBalances(month, active_only) ==
    ReadCall("get_month_balances", <<month, active_only>>,
             get_month_balances(Fresh, month, active_only))

PrintNetWorth(month, currency_code) ==
    ReadCall("print_net_worth", <<month, currency_code>>,
             print_net_worth(Fresh, month, currency_code))

NextReads ==
    \/ \E ds \in WriteReadBlocks : ScopeWriteRead(ds)
    \/ \E m \in InputMonths, ao \in BOOLEAN : GetMonthBalances(m, ao)
    \/ \E m \in InputMonths, c \in RateCurrencies : PrintNetWorth(m, c)

SpecReads == InitAccounts /\ [][NextReads]_vars

(***************************************************************************)
(* Fifth specification: container.py, the dependency injection container.  *)
(* A provider is a callable; a factory builds a new object each time it is *)
(* invoked (lambda c: Service()), a constant provider returns one object   *)
(* (lambda _: test_config).  An object is known by the provider that made  *)
(* it and the number of the invocation that made it.                       *)
(***************************************************************************)
SINGLETON == "singleton"
TRANSIENT == "transient"
Lifetimes == {SINGLETON, TRANSIENT}
KeyError == "No provider registered for token"

Tokens == {"Config", "Service"}
Factories == {"p1", "p2"}
Constants == {"k"}
Providers == Factories \cup Constants

\* Container.__init__: no provider, no singleton
Container_init ==
    [providers |-> [t \in Tokens |-> <<>>],
     singletons |-> [t \in Tokens |-> <<>>],
     invoked |-> [p \in Providers |-> 0]]

\* Container.register: the provider of the token is replaced; the
\* singletons are not looked at
Container_register(c, token, provider, lifetime) ==
    [c EXCEPT !.providers[token] = <<provider, lifetime>>]

\* provider(self): the object the provider returns on its next invocation
Instance(c, provider) ==
    IF provider \in Constants THEN [by |-> provider, n |-> 0]
    ELSE [by |-> provider, n |-> c.invoked[provider] + 1]

\* a resolve that stores no singleton
Container_resolve_never_caches(c, token) ==
    IF c.providers[token] = <<>>
    THEN [c |-> c, err |-> KeyError, value |-> <<>>, invoked |-> FALSE]
    ELSE LET provider == c.providers[token][1]
         IN  [c |-> [c EXCEPT !.invoked[provider] = @ + 1], err |-> NONE,
              value |-> <<Instance(c, provider)>>, invoked |-> TRUE]

\* Container.resolve
Container_resolve(c, token) ==
    IF c.singletons[token] # <<>>
    THEN [c |-> c, err |-> NONE, value |-> c.singletons[token], invoked |-> FALSE]
    ELSE IF c.providers[token] = <<>>
    THEN [c |-> c, err |-> KeyError, value |-> <<>>, invoked |-> FALSE]
    ELSE LET provider == c.providers[token][1]
             lifetime == c.providers[token][2]
             instance == Instance(c, provider)
             c1 == [c EXCEPT !.invoked[provider] = @ + 1]
         IN  [c |-> IF lifetime = SINGLETON
                    THEN [c1 EXCEPT !.singletons[token] = <<instance>>]
                    ELSE c1,
              err |-> NONE, value |-> <<instance>>, invoked |-> TRUE]

InitContainer ==
    /\ db = InitTables /\ tx = InitTables /\ trace = <<>> /\ nops = 0
    /\ result = [op |-> "none", arg |-> <<>>, err |-> NONE, rowcount |-> 0,
                 value |-> <<>>]
    /\ container = Container_init

\* a call of the container; the trace keeps the calls made and, for a
\* resolve, what it returned and whether it invoked a provider
ContainerCall(op, arg, c, err, value, invoked) ==
    /\ nops < MaxOps
    /\ container' = c
    /\ result' = [op |-> op, arg |-> arg, err |-> err, rowcount |-> 0,
                  value |-> value]
    /\ trace' = Append(trace, [op |-> op, arg |-> arg, err |-> err,
                               value |-> value, invoked |-> invoked])
    /\ nops' = nops + 1
    /\ UNCHANGED <<db, tx>>

Register(token, provider, lifetime) ==
    ContainerCall("register", <<token, provider, lifetime>>,
                  Container_register(container, token, provider, lifetime),
                  NONE, <<>>, FALSE)

Resolve(token) ==
    LET o == Container_resolve(container, token)
    IN  ContainerCall("resolve", <<token>>, o.c, o.err, o.value, o.invoked)

NextContainer ==
    \/ \E token \in Tokens, provider \in Providers, lifetime \in Lifetimes :
          Register(token, provider, lifetime)
    \/ \E token \in Tokens : Resolve(token)

SpecContainer == InitContainer /\ [][NextContainer]_vars

(***************************************************************************)
(* Sixth specification: use_cases.py, DBInitializerCSV.run, one step of    *)
(* the method at a time.  result.arg holds the file paths given and the    *)
(* database the run found, result.value the place the run has reached,     *)
(* the trace what it has done so far.                                      *)
(***************************************************************************)
RequiredKeys ==
    {"accounts", "balances", "categories", "currencies", "exchange_rates"}

MissingKeysError == "KeyError: Missing required file paths for keys"
FileNotFoundError == "FileNotFoundError: Path is not a file"

\* the paths given: one that is a file and one that is not
Paths == {"data.csv", "invalid/path.csv"}
is_file(path) == path = "data.csv"

\* DBInitializerCSV._validate_file_path_keys
validate_file_path_keys(file_paths, required_keys) ==
    IF required_keys \ DOMAIN file_paths # {} THEN MissingKeysError ELSE NONE

\* DBInitializerCSV._validate_file_paths
validate_file_paths(file_paths) ==
    IF \E key \in DOMAIN file_paths : ~is_file(file_paths[key])
    THEN FileNotFoundError ELSE NONE

\* a confirmation that takes the answer in any case of the letters
confirmed_any_case(confirmation) == confirmation \in {"YES", "yes"}

\* if confirmation != "YES": quit
confirmed(confirmation) == confirmation = "YES"

\* the schema of the DDL script, re-created: every table is empty
EmptyTables ==
    [currencies |-> {}, categories |-> {}, accounts |-> {}, balances |-> {},
     exchange_rates |-> {}]

\* SQLiteAdminService.init_database: script(ddl_script), which commits
init_database(S) ==
    Out(EmptyTables, EmptyTables, Append(S.trace, "init_database"), NONE, 0,
        <<>>)

Abs(n) == IF n < 0 THEN -n ELSE n

\* the rows of the files: two accounts and their balances, the one of the
\* liability written with its sign
CsvEntities ==
    [accounts |-> <<Acct("a", "checking", ACTIVE),
                    Acct("b", "mortgage", ACTIVE)>>,
     balances |-> <<Bal(1, LoadMonth, 1), Bal(2, LoadMonth, -1)>>]

\* InitDataService.insert_data_from_csv: the assert on the names, abs() of
\* the amounts, then the rows of the reference files and of the accounts
\* and balances files
insert_data_from_csv(S, file_paths) ==
    LET called == Call(S, "insert_data_from_csv")
        rows == [CsvEntities EXCEPT !.balances =
                    [i \in DOMAIN @ |-> [@[i] EXCEPT !.amount = Abs(@)]]]
    IN  IF ~(DOMAIN file_paths \subseteq RequiredKeys)
        THEN Out(called.db, called.tx, called.trace, AssertionError, 0, <<>>)
        ELSE insert_entities([called EXCEPT !.db.currencies = InitTables.currencies,
                                            !.db.categories = InitTables.categories,
                                            !.db.exchange_rates = InitTables.exchange_rates,
                                            !.tx.currencies = InitTables.currencies,
                                            !.tx.categories = InitTables.categories,
                                            !.tx.exchange_rates = InitTables.exchange_rates],
                             rows)

\* the file paths handed to run: all the keys, one key missing, one more
\* key, each with a path that is a file or is not
KeySets ==
    {RequiredKeys, RequiredKeys \ {"accounts"}, RequiredKeys \cup {"notes"}}

FilePathInputs == UNION {[K -> Paths] : K \in KeySets}

Answers == {"YES", "yes", "no"}

\* the databases a run finds: a new one and one that has been loaded
FoundDatabases == {InitTables, insert_entities(Blank, CsvEntities).db}

RunRes(file_paths, database, pc, err) ==
    [op |-> "DBInitializerCSV.run", arg |-> <<file_paths, database>>,
     err |-> err, rowcount |-> 0, value |-> <<pc>>]

InitInitializer ==
    /\ db \in FoundDatabases
    /\ tx = db
    /\ trace = <<>>
    /\ nops = 0
    /\ container = NoContainer
    /\ \E file_paths \in FilePathInputs :
          result = RunRes(file_paths, db, "run", NONE)

At(pc) == result.value = <<pc>>

\* the run goes on to pc, or ends with the error err
Goes(did, pc, err) ==
    /\ result' = [result EXCEPT !.err = err,
                                !.value = <<IF err # NONE THEN "raised" ELSE pc>>]
    /\ trace' = Append(trace, did)
    /\ nops' = nops + 1
    /\ UNCHANGED container

ValidateKeys ==
    /\ At("run")
    /\ Goes("validate_file_path_keys", "keys_ok",
            validate_file_path_keys(result.arg[1], RequiredKeys))
    /\ UNCHANGED <<db, tx>>

ValidatePaths ==
    /\ At("keys_ok")
    /\ Goes("validate_file_paths", "paths_ok",
            validate_file_paths(result.arg[1]))
    /\ UNCHANGED <<db, tx>>

\* confirmation = input("Type 'YES' to continue: ")
Confirm(confirmation) ==
    /\ At("paths_ok")
    /\ Goes("input:" \o confirmation,
            IF confirmed(confirmation) THEN "confirmed" ELSE "Quitting.", NONE)
    /\ UNCHANGED <<db, tx>>

InitDatabase ==
    /\ At("confirmed")
    /\ LET o == init_database([db |-> db, tx |-> tx, trace |-> trace])
       IN  /\ db' = o.db /\ tx' = o.tx /\ trace' = o.trace
           /\ result' = [result EXCEPT !.value = <<"initialized">>]
    /\ nops' = nops + 1
    /\ UNCHANGED container

InsertData ==
    /\ At("initialized")
    /\ LET o == insert_data_from_csv([db |-> db, tx |-> tx, trace |-> trace],
                                     result.arg[1])
       IN  /\ db' = o.db /\ tx' = o.tx /\ trace' = o.trace
           /\ result' = [result EXCEPT
                            !.err = o.err,
                            !.value = <<IF o.err # NONE THEN "raised"
                                        ELSE "complete">>]
    /\ nops' = nops + 1
    /\ UNCHANGED container

NextInitializer ==
    \/ ValidateKeys
    \/ ValidatePaths
    \/ \E confirmation \in Answers : Confirm(confirmation)
    \/ InitDatabase
    \/ InsertData

SpecInitializer == InitInitializer /\ [][NextInitializer]_vars

(***************************************************************************)
(* Vocabulary of the properties                                            *)
(***************************************************************************)
ErrorKinds == {IntegrityError, AssertionError, IndexError, NoBalancesError}

\* a call has just been made
Called == nops' = nops + 1

Count(tr, e) == Cardinality({i \in DOMAIN tr : tr[i] = e})

\* the last call was one repository call d in a scope of its own
IsRepoCall(r, op) == r.op = "uow" /\ Len(r.arg) = 1 /\ r.arg[1].op = op

\* the last call was a roll-forward of month m, by the repository or by
\* the service
IsRoll(r, m) ==
    \/ r.op = "roll_balances_forward" /\ r.arg[1] = m
    \/ IsRepoCall(r, "balances.roll_forward") /\ r.arg[1].month = m

\* the month that follows m in the calendar
Following(m) ==
    IF m.month < 12 THEN [year |-> m.year, month |-> m.month + 1]
    ELSE [year |-> m.year + 1, month |-> 1]

\* the balance rows of month m, month given as a Month
RowsAt(t, m) == {b \in t.balances : parse(b.month) = m}

(***************************************************************************)
(* C1: if a write of a scope succeeds and a later call of the same scope   *)
(* raises, then after the scope every persisted table is as it was when    *)
(* the scope was entered.                                                  *)
(***************************************************************************)
C1_RollbackAtomicity ==
    [][(Called /\ result'.op \in {"uow", "insert_entities"}
        /\ result'.err # NONE) => db' = db]_vars

(***************************************************************************)
(* C2: in every scope, a block that ends without error is followed by      *)
(* exactly one commit and no rollback; a block left by an error is         *)
(* followed by exactly one rollback and no commit, and the caller gets     *)
(* that same error.                                                        *)
(***************************************************************************)
\* the scopes of a trace, as pairs <<index of enter, index of exit>>
Scopes(tr) ==
    {<<j, i>> \in (DOMAIN tr) \X (DOMAIN tr) :
        /\ j < i /\ tr[j] = "uow.enter" /\ tr[i] = "uow.exit"
        /\ \A k \in (j + 1)..(i - 1) : tr[k] \notin {"uow.enter", "uow.exit"}}

InScopeCount(tr, sc, e) ==
    Cardinality({k \in sc[1]..sc[2] : tr[k] = e})

RaisedIn(tr, sc) == {tr[k] : k \in sc[1]..sc[2]} \cap ErrorKinds

C2_CommitOrRollbackOnce ==
    /\ \A sc \in Scopes(trace) :
          IF RaisedIn(trace, sc) = {}
          THEN /\ InScopeCount(trace, sc, "uow.commit") = 1
               /\ InScopeCount(trace, sc, "uow.rollback") = 0
          ELSE /\ InScopeCount(trace, sc, "uow.rollback") = 1
               /\ InScopeCount(trace, sc, "uow.commit") = 0
               /\ sc[2] = Len(trace)
               /\ RaisedIn(trace, sc) = {result.err}
    /\ (\A sc \in Scopes(trace) : RaisedIn(trace, sc) = {})
          => result.err = NONE
    /\ result.op # "init" => Scopes(trace) # {}

C2_Witness ==
    /\ result.op = "uow" /\ result.err = IntegrityError
    /\ Count(trace, "uow.rollback") = 1
    /\ Count(trace, "accounts.insert") = 1

(***************************************************************************)
(* C3: there is at most one balance row per (account_id, month), in what   *)
(* is persisted and in what the connection sees; insert_many of a balance  *)
(* whose pair exists raises the constraint violation and adds no row.      *)
(***************************************************************************)
OnePerPair(t) ==
    \A b1, b2 \in t.balances :
        (b1.account_id = b2.account_id /\ b1.month = b2.month) => b1 = b2

\* some row of the list handed to insert_many has a pair that is stored
HitsStoredPair(t, data) ==
    \E i \in DOMAIN data : \E b \in t.balances :
        b.account_id = data[i].account_id /\ parse(b.month) = data[i].month

C3_OneBalancePerPair ==
    /\ [](OnePerPair(db) /\ OnePerPair(tx))
    /\ [][(Called /\ IsRepoCall(result', "balances.insert_many")
           /\ HitsStoredPair(db, result'.arg[1].data))
          => (result'.err = IntegrityError /\ db'.balances = db.balances
              /\ tx'.balances = tx.balances)]_vars

C3_Witness ==
    /\ IsRepoCall(result, "balances.insert_many")
    /\ HitsStoredPair(db, result.arg[1].data)
    /\ \A i \in DOMAIN result.arg[1].data :
          FkAccount(db, result.arg[1].data[i].account_id)
    /\ result.err = IntegrityError

(***************************************************************************)
(* C4: a roll-forward of month M that directly follows a roll-forward of   *)
(* M inserts 0 rows and leaves the set of balance rows as the first call   *)
(* left it.                                                                *)
(***************************************************************************)
C4_SecondRollForwardInsertsNothing ==
    [][\A m \in InputMonths :
          (Called /\ IsRoll(result, m) /\ result.err = NONE
           /\ IsRoll(result', m))
          => /\ result'.rowcount = 0
             /\ db'.balances = db.balances
             /\ tx'.balances = tx.balances
             \* the service refuses a month without rows, which the
             \* repository rolls forward as zero rows
             /\ result'.err # NONE
                   => (result'.err = NoBalancesError /\ RowsAt(db, m) = {}
                       /\ result'.op = "roll_balances_forward")]_vars

\* the third call is a roll-forward of a month with two rows that inserts
\* nothing: after three calls two rows of the following month can only
\* come from a roll-forward of the same month, the call before
C4_Witness ==
    /\ \E m \in InputMonths :
          /\ IsRoll(result, m)
          /\ Cardinality(RowsAt(db, m)) = 2
          /\ {b.account_id : b \in RowsAt(db, m)}
                = {b.account_id : b \in RowsAt(db, Following(m))}
    /\ result.err = NONE /\ result.rowcount = 0
    /\ nops = 3

(***************************************************************************)
(* C5: a roll-forward of M keeps every stored balance row as it is, the    *)
(* rows of the month after M and the rows of M included, and every row it  *)
(* adds is a row of the month after M.                                     *)
(***************************************************************************)
C5_RollForwardInsertIfAbsent ==
    [][\A m \in InputMonths :
          (Called /\ IsRoll(result', m))
          => /\ db.balances \subseteq db'.balances
             /\ tx.balances \subseteq tx'.balances
             /\ \A b \in db'.balances \ db.balances :
                   parse(b.month) = Following(m)]_vars

\* a roll-forward ran over a destination row whose amount had been edited
C5_Witness ==
    \E m \in InputMonths :
        /\ IsRoll(result, m) /\ result.err = NONE
        /\ \E s \in RowsAt(db, m), d \in RowsAt(db, Following(m)) :
              s.account_id = d.account_id /\ s.amount # d.amount

(***************************************************************************)
(* C6: if no balance is stored for the month after M, then after           *)
(* roll_balances_forward(M) every balance of M has exactly one balance of  *)
(* the month after M with its account_id and amount, the month after M has *)
(* no other rows, and the amounts of the two months have the same sum.     *)
(***************************************************************************)
RECURSIVE Total(_)
Total(rows) ==
    IF rows = {} THEN 0
    ELSE LET b == CHOOSE x \in rows : TRUE IN b.amount + Total(rows \ {b})

ExactCopy(t, m) ==
    /\ \A s \in RowsAt(t, m) :
          Cardinality({d \in RowsAt(t, Following(m)) :
                          d.account_id = s.account_id}) = 1
          /\ \E d \in RowsAt(t, Following(m)) :
                d.account_id = s.account_id /\ d.amount = s.amount
    /\ \A d \in RowsAt(t, Following(m)) :
          \E s \in RowsAt(t, m) : s.account_id = d.account_id
    /\ Total(RowsAt(t, Following(m))) = Total(RowsAt(t, m))

C7_RollForwardOfEmptyMonthFails ==
    [][\A m \in InputMonths :
          (Called /\ result'.op = "roll_balances_forward"
           /\ result'.arg[1] = m /\ RowsAt(db, m) = {})
          => (result'.err = NoBalancesError /\ db' = db /\ tx' = tx)]_vars

\* the service was called for an empty month while another month had rows
C7_Witness ==
    /\ result.op = "roll_balances_forward"
    /\ result.err = NoBalancesError
    /\ RowsAt(db, result.arg[1]) = {}
    /\ db.balances # {}

(***************************************************************************)
(* C8 as the specification states it: roll_balances_forward makes the      *)
(* check and the insert in one scope, with no commit and no scope exit     *)
(* between them.                                                           *)
(***************************************************************************)
Pos(tr, e) == CHOOSE i \in DOMAIN tr : tr[i] = e

C8_CheckAndInsertInOneScope ==
    (result.op = "roll_balances_forward" /\ result.err = NONE)
    => /\ Count(trace, "uow.enter") = 1
       /\ \A k \in Pos(trace, "balances.check_month")
                      ..Pos(trace, "balances.roll_forward") :
             trace[k] \notin {"db.commit", "uow.commit", "uow.exit"}

(***************************************************************************)
(* C8: roll_balances_forward makes the check in a scope of its own, which  *)
(* commits and exits before a second scope is entered; the insert is the   *)
(* only repository call of the second scope, one statement whose rows the  *)
(* connection commits when the statement returns, before the scope's own   *)
(* commit.  A month without rows ends the call in the first scope.         *)
(***************************************************************************)
C8_CheckAndInsertInTwoScopes ==
    result.op = "roll_balances_forward"
    => IF result.err = NONE
       THEN trace = <<"uow.enter", "balances.check_month", "db.commit",
                      "uow.commit", "db.commit", "uow.exit",
                      "uow.enter", "balances.roll_forward", "db.commit",
                      "uow.commit", "db.commit", "uow.exit">>
       ELSE trace = <<"uow.enter", "balances.check_month", "db.commit",
                      NoBalancesError, "uow.rollback", "db.rollback",
                      "uow.exit">>

C8_Witness ==
    /\ result.op = "roll_balances_forward" /\ result.err = NONE
    /\ result.rowcount = 1
    /\ Cardinality(Scopes(trace)) = 2

(***************************************************************************)
(* C9: for a month M with balances, get_net_worth(M) returns as assets the *)
(* sum of the amounts at M of the accounts of an asset category, as        *)
(* liabilities the sum of the amounts at M of the accounts of a liability  *)
(* category, and as net_worth their difference; rows of other months do    *)
(* not count.                                                              *)
(***************************************************************************)
RowsOfSide(t, m, side) ==
    {b \in RowsAt(t, m) :
        \E a \in t.accounts : \E c \in t.categories :
            a.id = b.account_id /\ c.name = a.category /\ c.side = side}

C9_NetWorthSumsBySide ==
    (result.op = "get_net_worth" /\ RowsAt(db, result.arg[1]) # {})
    => /\ result.err = NONE
       /\ Len(result.value) = 1
       /\ result.value[1].month = result.arg[1]
       /\ result.value[1].assets = Total(RowsOfSide(db, result.arg[1], ASSET))
       /\ result.value[1].liabilities
             = Total(RowsOfSide(db, result.arg[1], LIABILITY))
       /\ result.value[1].net_worth
             = Total(RowsOfSide(db, result.arg[1], ASSET))
               - Total(RowsOfSide(db, result.arg[1], LIABILITY))

\* a negative net worth, with another month whose sums are different
C9_Witness ==
    /\ result.op = "get_net_worth" /\ result.err = NONE
    /\ result.value[1].net_worth < 0
    /\ result.value[1].assets > 0
    /\ \E m \in InputMonths :
          /\ m # result.arg[1]
          /\ Total(RowsOfSide(db, m, LIABILITY)) # result.value[1].liabilities
          /\ RowsAt(db, m) # {}

(***************************************************************************)
(* C10: get_net_worth(month, currency_code) queries the net worth of the   *)
(* currency it is given, and the record it returns carries that currency.  *)
(***************************************************************************)
C10_NetWorthOfRequestedCurrency ==
    result.op = "get_net_worth"
    => /\ trace[Pos(trace, "net_worth.get") + 1] = result.arg[2]
       /\ result.err = NONE
             => result.value[1].currency_code = result.arg[2]

(***************************************************************************)
(* C11: an update of the balance of a stored (account_id, month) pair      *)
(* succeeds, sets the amount of that row and changes no other balance row  *)
(* and no account; get_balance for that month and the name of the account, *)
(* called next, returns the new amount.                                    *)
(***************************************************************************)
\* the rows of t with the amount of the pair (account_id, m) set to n
WithAmount(t, account_id, m, n) ==
    {IF b.account_id = account_id /\ parse(b.month) = m
     THEN [id |-> b.id, account_id |-> b.account_id, month |-> b.month,
           amount |-> n]
     ELSE b : b \in t.balances}

HasPair(t, account_id, m) ==
    \E b \in RowsAt(t, m) : b.account_id = account_id

\* the id of the account of a name, 0 if there is none
IdOfName(t, name) ==
    IF \E a \in t.accounts : a.name = name
    THEN (CHOOSE a \in t.accounts : a.name = name).id ELSE 0

\* the id of the account the last call of an update was made for
UpdatedId(r, t) ==
    IF r.op = "update_balance" THEN r.arg[1] ELSE IdOfName(t, r.arg[1])

IsBalanceUpdate(r) ==
    r.op \in {"update_balance", "update_balance_account_name"}

C11_UpdateThenGet ==
    /\ [][(Called /\ IsBalanceUpdate(result')
           /\ HasPair(db, UpdatedId(result', db), result'.arg[2]))
          => /\ result'.err = NONE
             /\ db'.balances = WithAmount(db, UpdatedId(result', db),
                                          result'.arg[2], result'.arg[3])
             /\ db'.accounts = db.accounts
             /\ tx' = db']_vars
    /\ [][(Called /\ IsBalanceUpdate(result) /\ result.err = NONE
           /\ result'.op = "get_balance"
           /\ result'.arg[1] = result.arg[2]
           /\ IdOfName(db, result'.arg[2]) = UpdatedId(result, db))
          => /\ result'.err = NONE
             /\ result'.value[1].amount = result.arg[3]
             /\ result'.value[1].account_id = UpdatedId(result, db)
             /\ result'.value[1].month = result.arg[2]]_vars

\* the second call is a get_balance that returns an amount only an update
\* sets, while a row of another month keeps the loaded amount
C11_Witness ==
    /\ result.op = "get_balance" /\ result.err = NONE /\ nops = 2
    /\ result.value[1].amount \in NewAmounts
    /\ result.value[1].month = LoadMonth
    /\ \E b \in db.balances :
          /\ b.account_id = result.value[1].account_id
          /\ parse(b.month) # LoadMonth
          /\ b.amount = 1
    /\ \E b \in RowsAt(db, LoadMonth) :
          b.account_id # result.value[1].account_id /\ b.amount = 1

(***************************************************************************)
(* C12: a repository update (balances.update, accounts.update_name,        *)
(* update_status, update_currency, update_category, update_description)    *)
(* whose key matches no row raises the error of the failed assertion and   *)
(* leaves every table as it was.                                           *)
(***************************************************************************)
\* the key of the update d matches a row of t
KeyMatches(t, d) ==
    IF d.op = "balances.update" THEN HasPair(t, d.account_id, d.month)
    ELSE \E a \in t.accounts : a.id = d.account_id

IsRepoUpdate(r) ==
    /\ r.op = "uow" /\ Len(r.arg) = 1
    /\ r.arg[1].op \in {d.op : d \in UpdateCalls}

C12_UpdateOfNoRowRaises ==
    [][(Called /\ IsRepoUpdate(result') /\ ~KeyMatches(db, result'.arg[1]))
       => (result'.err = AssertionError /\ db' = db /\ tx' = tx)]_vars

\* an update of an account that is not stored was refused, on a store
\* that holds other accounts
C12_Witness ==
    /\ IsRepoUpdate(result) /\ result.arg[1].op = "accounts.update_name"
    /\ ~KeyMatches(db, result.arg[1])
    /\ result.err = AssertionError
    /\ db.accounts # {}

(***************************************************************************)
(* C13 as the specification states it: get_exchange_rate raises an error   *)
(* whenever no exchange rate is stored for the currency and the month.     *)
(***************************************************************************)
RatesOf(t, m, code) ==
    {r \in t.exchange_rates : r.currency = code /\ parse(r.month) = m}

C13_MissingRateRaises ==
    (result.op = "get_exchange_rate"
     /\ RatesOf(db, result.arg[1], result.arg[2]) = {})
    => result.err # NONE

(***************************************************************************)
(* C13: get_exchange_rate raises the error "Currency not found in          *)
(* database" when the currency code is not stored; for a stored currency   *)
(* without a rate for the month it raises nothing and returns None; for a  *)
(* stored rate it returns that rate.  It changes no table.                 *)
(***************************************************************************)
C13_ExchangeRateOrNone ==
    result.op = "get_exchange_rate"
    => LET m == result.arg[1]
           code == result.arg[2]
       IN  IF \A c \in db.currencies : c.code # code
           THEN result.err = CurrencyNotInDatabase /\ result.value = <<>>
           ELSE /\ result.err = NONE
                /\ IF RatesOf(db, m, code) = {} THEN result.value = <<>>
                   ELSE /\ Len(result.value) = 1
                        /\ result.value[1].currency_code = code
                        /\ result.value[1].month = m
                        /\ \E r \in RatesOf(db, m, code) :
                              r.rate = result.value[1].rate

\* a stored currency has a rate for another month only: None is returned
C13_Witness ==
    /\ result.op = "get_exchange_rate"
    /\ result.err = NONE /\ result.value = <<>>
    /\ \E r \in db.exchange_rates : r.currency = result.arg[2]

(***************************************************************************)
(* C14: AccountService.delete(name) of a stored account ends without an    *)
(* error; afterwards the account of that name is gone, no balance carries  *)
(* its id, and every other account and every balance of another account    *)
(* is as it was.                                                           *)
(***************************************************************************)
C14_DeleteRemovesAccountAndBalances ==
    [][(Called /\ result'.op = "AccountService.delete"
        /\ IdOfName(db, result'.arg[1]) # 0)
       => LET id == IdOfName(db, result'.arg[1])
          IN  /\ result'.err = NONE
              /\ db'.accounts = {a \in db.accounts : a.id # id}
              /\ db'.balances = {b \in db.balances : b.account_id # id}
              /\ \A a \in db'.accounts : a.name # result'.arg[1]
              /\ db'.currencies = db.currencies
              /\ db'.categories = db.categories
              /\ db'.exchange_rates = db.exchange_rates
              /\ tx' = db']_vars

\* an account with balances has been deleted and another account keeps its
\* balances
C14_Witness ==
    /\ result.op = "AccountService.delete"
    /\ result.err = NONE
    /\ result.rowcount >= 1
    /\ db.balances # {}
    /\ \A b \in db.balances : \E a \in db.accounts : a.id = b.account_id

(***************************************************************************)
(* C15: a rejected AccountService request changes no row.  A create with   *)
(* a stored name, a status string other than "active" and "inactive", an   *)
(* unknown currency code or an unknown category name, and a delete or an   *)
(* update of a name that is not stored, each end with an error and leave   *)
(* every table, committed or not, as it was.                               *)
(***************************************************************************)
Stored(t, name) == \E a \in t.accounts : a.name = name

CreateRejected(t, q) ==
    \/ Stored(t, q.name)
    \/ q.status_str \notin {ACTIVE, INACTIVE}
    \/ \A c \in t.currencies : c.code # q.currency_code
    \/ \A c \in t.categories : c.name # q.category_name

Rejected(t, r) ==
    \/ r.op = "AccountService.create" /\ CreateRejected(t, r.arg[1])
    \/ r.op \in {"AccountService.delete", "AccountService.update"}
       /\ ~Stored(t, r.arg[1])

C15_RejectedRequestWritesNothing ==
    [][(Called /\ Rejected(db, result'))
       => (result'.err # NONE /\ db' = db /\ tx' = tx
           /\ result'.value = <<>>)]_vars

RejectedKinds ==
    {AccountExists, StatusInvalid, CurrencyNotFound, CategoryNotFound,
     AccountNotFound}

\* a create was rejected where accounts and balances are stored
C15_Witness ==
    /\ result.op = "AccountService.create"
    /\ result.err \in RejectedKinds
    /\ db.accounts # {} /\ db.balances # {}

(***************************************************************************)
(* C16: in every store that AccountService.create and                      *)
(* AccountService.update(new_name) calls lead to, no two accounts share a  *)
(* name and no two accounts share an id; a create of a stored name, and a  *)
(* rename to a stored name, end with an error and change no row.           *)
(***************************************************************************)
AccountsDistinct(t) ==
    \A a, b \in t.accounts : (a.name = b.name \/ a.id = b.id) => a = b

IsRename(r) ==
    r.op = "AccountService.update" /\ Len(r.arg[2].new_name) = 1

NameTaken(t, r) ==
    \/ r.op = "AccountService.create" /\ Stored(t, r.arg[1].name)
    \/ IsRename(r) /\ Stored(t, r.arg[1])
       /\ Stored(t, r.arg[2].new_name[1])

C16_NamesAndIdsUnique ==
    /\ [](AccountsDistinct(db) /\ AccountsDistinct(tx))
    /\ [][(Called /\ NameTaken(db, result'))
          => (result'.err = AccountExists /\ db' = db /\ tx' = tx)]_vars

\* a rename to the name of another stored account was refused, after an
\* account had been created
C16_Witness ==
    /\ IsRename(result)
    /\ result.err = AccountExists
    /\ result.arg[1] # result.arg[2].new_name[1]
    /\ Stored(db, "c")

(***************************************************************************)
(* C17: AccountService.update(name, one new value) of a stored account,    *)
(* the value being acceptable, ends without an error and changes exactly   *)
(* the named field of exactly that account: its id and its other fields,   *)
(* every other account and every other table are as they were, and the     *)
(* Account returned is the account as it is stored after the update.       *)
(***************************************************************************)
Given(opt, old) == IF Len(opt) = 1 THEN opt[1] ELSE old

\* the row a with the new values of q
WithNewValues(a, q) ==
    [id |-> a.id,
     name |-> Given(q.new_name, a.name),
     description |-> Given(q.new_description, a.description),
     category |-> Given(q.new_category_name, a.category),
     currency |-> Given(q.new_currency_code, a.currency),
     status |-> Given(q.new_status_str, a.status)]

Acceptable(t, q) ==
    /\ Len(q.new_name) = 1 => ~Stored(t, q.new_name[1])
    /\ Len(q.new_description) = 1 => q.new_description[1] # ""
    /\ Len(q.new_category_name) = 1 =>
          \E c \in t.categories : c.name = q.new_category_name[1]
    /\ Len(q.new_currency_code) = 1 =>
          \E c \in t.currencies : c.code = q.new_currency_code[1]
    /\ Len(q.new_status_str) = 1 => q.new_status_str[1] \in {ACTIVE, INACTIVE}

IsUpdateOfOne(t, r) ==
    /\ r.op = "AccountService.update"
    /\ r.arg[2] \in OneNewValue
    /\ Stored(t, r.arg[1])
    /\ Acceptable(t, r.arg[2])

C17_UpdateChangesOneField ==
    [][(Called /\ IsUpdateOfOne(db, result'))
       => LET id == IdOfName(db, result'.arg[1])
              q == result'.arg[2]
          IN  /\ result'.err = NONE
              /\ db'.accounts = {IF a.id = id THEN WithNewValues(a, q) ELSE a
                                 : a \in db.accounts}
              /\ \A k \in (DOMAIN db) \ {"accounts"} : db'[k] = db[k]
              /\ tx' = db'
              /\ Len(result'.value) = 1
              /\ AccountMapper_to_record(result'.value[1]) \in db'.accounts
              /\ result'.value[1].id = id]_vars

\* the category of account "a", stored as "checking", has been changed and
\* another account is stored
C17_Witness ==
    /\ result.op = "AccountService.update"
    /\ result.err = NONE
    /\ result.arg[1] = "a"
    /\ result.arg[2].new_category_name = <<"mortgage">>
    /\ result.arg[2] \in OneNewValue
    /\ Cardinality(db.accounts) = 2
    /\ \E a \in db.accounts : a.category = "checking"
    /\ result.value[1].category_name = "mortgage"

(***************************************************************************)
(* C18: Month(year, month) succeeds exactly when 1 <= month <= 12 and      *)
(* year >= 0, and Month.parse of a text YYYY-MM succeeds exactly when the  *)
(* numbers it writes are within those bounds; each gives the Month of      *)
(* those numbers, each failure is a ValueError, and every Month that a     *)
(* method returns is within the bounds.                                    *)
(***************************************************************************)
ValueErrors ==
    {InvalidMonth, InvalidYear, InvalidMonthFormat, InvalidLiteral,
     UnpackError}

InBounds(y, m) == 1 <= m /\ m <= 12 /\ y >= 0

\* the call ended as the bounds say for the numbers y and m
AsBoundsSay(r, y, m) ==
    IF InBounds(y, m)
    THEN r.err = NONE /\ r.value = <<[year |-> y, month |-> m]>>
    ELSE r.err \in ValueErrors /\ r.value = <<>>

C18_MonthWithinBounds ==
    /\ result.op = "Month" => AsBoundsSay(result, result.arg[1], result.arg[2])
    /\ result.op = "parse" =>
          /\ \A y \in Years \ {-1}, m \in MonthNumbers :
                result.arg[1] = YYYY_MM(y, m) => AsBoundsSay(result, y, m)
          /\ result.arg[1] \in Malformed \ {<<"2", "0", "2", "4", "-", "1">>}
                => result.err \in ValueErrors
    /\ (result.op \in {"Month", "parse", "increment"} /\ result.err = NONE)
          => InBounds(result.value[1].year, result.value[1].month)

\* Month(-1, 12) has been refused for its year
C18_Witness ==
    /\ result.op = "Month"
    /\ result.arg = <<-1, 12>>
    /\ result.err = InvalidYear

(***************************************************************************)
(* C19: for a valid Month m, m.increment() returns the month that follows  *)
(* m immediately: (year, month + 1) when month < 12 and (year + 1, 1) when *)
(* month = 12.  The Month returned is within the bounds and strictly later *)
(* than m, and m is as it was.                                             *)
(***************************************************************************)
\* the number of months from 0000-01 to m
MonthIndex(m) == 12 * m.year + (m.month - 1)

C19_IncrementIsNextMonth ==
    [][(Called /\ result'.op = "increment")
       => LET m == result.value[1]
              n == result'.value[1]
          IN  /\ result'.err = NONE
              /\ m.month < 12 => n = [year |-> m.year, month |-> m.month + 1]
              /\ m.month = 12 => n = [year |-> m.year + 1, month |-> 1]
              /\ InBounds(n.year, n.month)
              /\ MonthIndex(n) = MonthIndex(m) + 1
              /\ MonthIndex(n) > MonthIndex(m)
              /\ result'.arg = <<m>>]_vars

\* the increment of a December
C19_Witness ==
    /\ result.op = "increment"
    /\ result.arg = <<[year |-> 2024, month |-> 12]>>
    /\ result.value = <<[year |-> 2025, month |-> 1]>>

(***************************************************************************)
(* C20 as the specification states it: for every record that carries all   *)
(* fields of its entity, with its month written YYYY-MM,                   *)
(* to_record(to_entity(r)) = r.                                            *)
(***************************************************************************)
\* Python's ==: numbers by their value, text by its characters, a number
\* never equals a text
PyEq(a, b) ==
    IF a.type = "str" \/ b.type = "str" THEN a = b
    ELSE (IF a.type = "int" THEN 100 * a.num ELSE a.num)
         = (IF b.type = "int" THEN 100 * b.num ELSE b.num)

\* equality of two dicts
DictEq(a, b) ==
    DOMAIN a = DOMAIN b /\ \A k \in DOMAIN a : PyEq(a[k], b[k])

EntityFields(mapper) ==
    CASE mapper = "Currency" -> {"code", "description"}
      [] mapper = "Category" -> {"name", "side"}
      [] mapper = "Account" ->
            {"id", "name", "description", "category", "currency", "status"}
      [] mapper = "Balance" -> {"id", "account_id", "month", "amount"}
      [] mapper = "ExchangeRate" -> {"currency", "month", "rate"}

\* text of the form YYYY-MM
IsYYYY_MM(t) ==
    /\ Len(t) = 7 /\ t[5] = "-"
    /\ IsNumeral(SubSeq(t, 1, 4)) /\ IsNumeral(SubSeq(t, 6, 7))

MonthsCanonical(r) == "month" \in DOMAIN r => IsYYYY_MM(r.month.text)

IsRoundTrip == result.op = "to_record"

C20_EveryRecordRoundTrips ==
    (IsRoundTrip /\ EntityFields(result.arg[1]) \subseteq DOMAIN result.arg[2]
     /\ MonthsCanonical(result.arg[2]))
    => DictEq(result.value[1], result.arg[2])

(***************************************************************************)
(* C20: to_record(to_entity(r)) has exactly the fields of the entity.  It  *)
(* equals r when r has exactly those fields, its month is written YYYY-MM  *)
(* and its id, account_id and amount are ints and its rate is a number.    *)
(* Where r holds such a field as text, as every row of a CSV file does,    *)
(* to_record returns the number and not the text, so the result differs    *)
(* from r.  Month.parse(str(m)) = m for every valid Month m.               *)
(***************************************************************************)
IntFields == {"id", "account_id", "amount"}

NumbersTyped(r) ==
    /\ \A k \in IntFields \cap DOMAIN r : r[k].type = "int"
    /\ "rate" \in DOMAIN r => r.rate.type \in {"int", "float"}

C20_TypedRecordRoundTrips ==
    /\ [](IsRoundTrip =>
            LET mapper == result.arg[1]
                r == result.arg[2]
                back == result.value[1]
            IN  /\ DOMAIN back = EntityFields(mapper)
                /\ (DOMAIN r = EntityFields(mapper) /\ MonthsCanonical(r)
                    /\ NumbersTyped(r)) => DictEq(back, r)
                /\ \A k \in (IntFields \cup {"rate"}) \cap DOMAIN back :
                      r[k].type = "str" =>
                         (back[k].type # "str" /\ ~PyEq(back[k], r[k])))
    /\ [][(Called /\ result.op = "str" /\ result'.op = "parse")
          => (result'.err = NONE /\ result'.value = result.arg)]_vars

\* a balance read from a CSV file has gone through both conversions: its
\* amount, given as text, comes back as the number
C20_Witness ==
    /\ IsRoundTrip
    /\ result.arg[1] = "Balance"
    /\ result.arg[2].amount = PyStr(<<"1", "0", "0">>)
    /\ result.arg[2].month = PyStr(YYYY_MM(2023, 5))
    /\ result.value[1].amount = PyInt(100)

(***************************************************************************)
(* The container: the calls kept in the trace.                             *)
(***************************************************************************)
\* the resolves of a token that returned an instance
Resolves(token) ==
    {j \in 1..Len(trace) : /\ trace[j].op = "resolve"
                           /\ trace[j].arg[1] = token
                           /\ trace[j].err = NONE}

\* the call that registered what the j-th call found registered for the token
LastRegister(token, j) ==
    SetMax({0} \cup {i \in 1..(j - 1) : /\ trace[i].op = "register"
                                        /\ trace[i].arg[1] = token})

ProviderAt(token, j) == trace[LastRegister(token, j)].arg[2]

LifetimeAt(token, j) == trace[LastRegister(token, j)].arg[3]

\* no resolve before the j-th found the token registered as a singleton
NoSingletonBefore(token, j) ==
    \A i \in Resolves(token) : i < j => LifetimeAt(token, i) # SINGLETON

C22_LastRegistrationWins ==
    \A token \in Tokens : \A j \in Resolves(token) :
       trace[j].value[1].by = ProviderAt(token, j)

(***************************************************************************)
(* C23: inside one scope a read made through a repository observes the     *)
(* write made before it through another repository: when the read is       *)
(* made, the row written is in the tables and the read returns what the    *)
(* same read returns on the tables the scope leaves.                       *)
(***************************************************************************)
\* a scope of a write and a read whose read was made
IsWriteRead ==
    /\ Called
    /\ result'.op = "uow"
    /\ Len(result'.arg) = 2
    /\ \E k \in 1..Len(trace') : trace'[k] = result'.arg[2].op

\* the row the write d sets is in the tables t
Written(d, t) ==
    CASE d.op = "accounts.update_name" ->
            \E a \in t.accounts : a.id = d.account_id /\ a.name = d.value
      [] d.op = "accounts.update_status" ->
            \E a \in t.accounts : a.id = d.account_id /\ a.status = d.value
      [] d.op = "accounts.update_category" ->
            \E a \in t.accounts : a.id = d.account_id /\ a.category = d.value
      [] d.op = "balances.update" ->
            \E b \in t.balances : /\ b.account_id = d.account_id
                                  /\ b.month = MonthStr(d.month)
                                  /\ b.amount = d.amount

C23_ReadSeesEarlierWrite ==
    [][IsWriteRead =>
          LET o == RunOp([db |-> db', tx |-> tx', trace |-> <<>>],
                         result'.arg[2])
          IN  /\ Written(result'.arg[1], tx')
              /\ result'.err = o.err
              /\ result'.value = o.value]_vars

\* account 1 is renamed through the accounts repository, and the balances
\* repository then finds its balance under the new name
C23_Witness ==
    /\ result.op = "uow"
    /\ Len(result.arg) = 2
    /\ result.arg[1].op = "accounts.update_name"
    /\ result.arg[1].account_id = 1
    /\ result.arg[2].op = "balances.get"
    /\ result.arg[2].account_name = "c"
    /\ result.err = NONE
    /\ result.value[1].account_id = 1

(***************************************************************************)
(* C24: get_month(month, active_only = True) returns exactly the balances  *)
(* stored at the month whose account is active, get_month(month,           *)
(* active_only = False) returns all the balances stored at the month, and  *)
(* neither changes a table.                                                *)
(***************************************************************************)
\* the balance rows of the tables t as Balance entities of the month m
EntitiesAt(t, rows, m) ==
    {[id |-> b.id, account_id |-> b.account_id, month |-> m,
      amount |-> b.amount] : b \in {x \in rows : x.month = MonthStr(m)}}

OfActiveAccount(t) ==
    {b \in t.balances :
        \E a \in t.accounts : a.id = b.account_id /\ a.status = ACTIVE}

IsGetMonth == Called /\ result'.op = "get_month_balances"

C24_GetMonthFiltersByStatus ==
    [][IsGetMonth =>
          LET m == result'.arg[1]
              active_only == result'.arg[2]
          IN  /\ result'.err = NONE
              /\ db' = db /\ tx' = tx
              /\ active_only =>
                    result'.value = EntitiesAt(db, OfActiveAccount(db), m)
              /\ ~active_only =>
                    result'.value = EntitiesAt(db, db.balances, m)]_vars

\* the month loaded holds the balance of an inactive account, which the
\* read of the active accounts leaves out
C24_Witness ==
    /\ result.op = "get_month_balances"
    /\ result.arg = <<LoadMonth, TRUE>>
    /\ result.value # {}
    /\ \E b \in db.balances :
          /\ b.month = MonthStr(LoadMonth)
          /\ \E a \in db.accounts : a.id = b.account_id /\ a.status = INACTIVE
          /\ \A e \in result.value : e.id # b.id

(***************************************************************************)
(* C25: in what is persisted every balance refers to a stored account and  *)
(* every account to a stored category and a stored currency; a bulk load   *)
(* with a balance of an account that is not stored fails and changes no    *)
(* table.                                                                  *)
(***************************************************************************)
ReferencesKept(t) ==
    /\ \A b \in t.balances : \E a \in t.accounts : a.id = b.account_id
    /\ \A a \in t.accounts :
          /\ \E c \in t.categories : c.name = a.category
          /\ \E c \in t.currencies : c.code = a.currency

\* a load that was refused because one of its balances has no account
IsDanglingLoad ==
    /\ Called
    /\ result'.op = "insert_entities"
    /\ result'.err = IntegrityError
    /\ LET balances == result'.arg[1].balances
       IN  \E i \in 1..Len(balances) :
              \A a \in db'.accounts : a.id # balances[i].account_id

C25_ReferencesAlwaysKept == ReferencesKept(db) /\ ReferencesKept(tx)

C25_BreakingOperationChangesNothing ==
    /\ [](ReferencesKept(db) /\ ReferencesKept(tx))
    /\ [][IsDanglingLoad => (db' = db /\ tx' = tx)]_vars

(***************************************************************************)
(* C26: AccountService.update with several new values of which one is not  *)
(* valid raises the validation error and leaves the account as it was: no  *)
(* field given earlier in the same call has been applied.                  *)
(***************************************************************************)
ValidationErrors ==
    {AccountExists, StatusInvalid, CurrencyNotFound, CategoryNotFound,
     DescriptionEmpty}

\* an update of a stored account with more than one new value that was
\* refused for one of them
IsRefusedUpdate ==
    /\ Called
    /\ result'.op = "AccountService.update"
    /\ result'.arg[2] \in TwoNewValues
    /\ result'.err \in ValidationErrors

C26_RefusedUpdateAppliesNothing ==
    [][IsRefusedUpdate => (db'.accounts = db.accounts /\ tx' = db')]_vars

(***************************************************************************)
(* C27: after any sequence of operations that write balances, every        *)
(* stored amount is a non-negative integer.                                *)
(***************************************************************************)
C27_AmountsNonNegative ==
    \A b \in db.balances \cup tx.balances : b.amount \in Nat

(***************************************************************************)
(* C28: roll_balances_forward(M) copies forward only the balances of the   *)
(* active accounts: every row it adds belongs to an account whose status   *)
(* is active.                                                              *)
(***************************************************************************)
C28_RollForwardOfActiveOnly ==
    [][(Called /\ result'.op = "roll_balances_forward")
       => \A b \in db'.balances \ db.balances :
             \E a \in db.accounts : a.id = b.account_id /\ a.status = ACTIVE]_vars

(***************************************************************************)
(* C29: print_net_worth of a month and a currency with one net worth       *)
(* record prints that one record; when there is no record it fails with    *)
(* the error "No net worth data found for <month> in <currency>".          *)
(***************************************************************************)
\* the rows of the view for a month and a currency
NetWorthRows(t, month, currency_code) ==
    {r \in networth_history(t) :
        r.month = MonthStr(month) /\ r.currency = currency_code}

C29_NoNetWorthIsExplicitError ==
    [][(Called /\ result'.op = "print_net_worth")
       => LET rows == NetWorthRows(db, result'.arg[1], result'.arg[2])
          IN  /\ Cardinality(rows) <= 1
              /\ rows # {} => (result'.err = NONE /\ Len(result'.value) = 1)
              /\ rows = {} => result'.err = NoNetWorthData]_vars

(***************************************************************************)
(* C30: DBInitializerCSV.run changes the database only after it has found  *)
(* all the required keys, then found every path to be a file, then been    *)
(* answered exactly "YES", in this order; a run that ends with the error   *)
(* of a missing key, with the error of a path that is not a file or with   *)
(* "Quitting." after another answer leaves the database as it found it.    *)
(***************************************************************************)
ChecksPassedInOrder ==
    /\ Len(trace) >= 3
    /\ trace[1] = "validate_file_path_keys"
    /\ trace[2] = "validate_file_paths"
    /\ trace[3] = "input:YES"
    /\ RequiredKeys \subseteq DOMAIN result.arg[1]
    /\ \A key \in DOMAIN result.arg[1] : is_file(result.arg[1][key])

\* the run has ended without the confirmation
Refused ==
    \/ result.err \in {MissingKeysError, FileNotFoundError}
    \/ At("Quitting.")

\* how a run that has ended has ended
EndsAsGiven ==
    LET file_paths == result.arg[1]
    IN  IF RequiredKeys \ DOMAIN file_paths # {}
        THEN result.err = MissingKeysError /\ Len(trace) = 1
        ELSE IF \E key \in DOMAIN file_paths : ~is_file(file_paths[key])
        THEN result.err = FileNotFoundError /\ Len(trace) = 2
        ELSE IF trace[3] # "input:YES"
        THEN At("Quitting.") /\ result.err = NONE /\ Len(trace) = 3
        ELSE trace[4] = "init_database"

C30_DatabaseChangedOnlyAfterChecks ==
    /\ [][(db' # db \/ tx' # tx) => ChecksPassedInOrder]_vars
    /\ [](Refused => (db = result.arg[2] /\ tx = db))
    /\ []((At("raised") \/ At("Quitting.") \/ At("complete")) => EndsAsGiven)

\* a run on a new database that was answered "YES": the database holds
\* the rows of the files
C30_Witness ==
    /\ At("complete")
    /\ result.arg[2] = InitTables
    /\ trace[3] = "input:YES"
    /\ db.accounts # {} /\ db.balances # {}
    /\ \A b \in db.balances : b.amount = 1

====
